---- MODULE Spec2Model ----
(***************************************************************************)
(* A model of the ReAct decision engine of                                 *)
(* src/brainstorming/agents/ruv_react_decision_engine.py: the arithmetic   *)
(* tool, the tool registry, the rule engine, the two completion clients    *)
(* and the loop of run_agent.                                              *)
(*                                                                         *)
(* Text is a sequence of tokens.  A token is a piece of text that the      *)
(* program's regular expressions and character tests read as one unit:     *)
(* the whitespace characters " " and "\n", the brackets "[" and "]", the   *)
(* characters of an arithmetic expression (a digit, an operator, a         *)
(* parenthesis, "."), the two markers "Answer:" and "Action:", and opaque  *)
(* words (any other token), which hold no whitespace at either end, no     *)
(* bracket and no marker.  Concatenation of text is \o.                    *)
(***************************************************************************)
EXTENDS Integers, Sequences, FiniteSets, TLC

(***************************************************************************)
(* The data of the module that every query reads: the tool registry and    *)
(* the two case tables are lists, which Python lets any code change.       *)
(***************************************************************************)
VARIABLES tools, medical_cases, legal_cases

shared == << tools, medical_cases, legal_cases >>

(***************************************************************************)
(* Python's text primitives.                                               *)
(***************************************************************************)

\* The characters str.strip() removes and the regex class \s matches.
Whitespace == {" ", "\n"}

RECURSIVE lstrip(_)
lstrip(s) == IF s # <<>> /\ Head(s) \in Whitespace THEN lstrip(Tail(s)) ELSE s

RECURSIVE rstrip(_)
rstrip(s) ==
    IF s # <<>> /\ s[Len(s)] \in Whitespace
    THEN rstrip(SubSeq(s, 1, Len(s) - 1))
    ELSE s

\* str.strip()
strip(s) == rstrip(lstrip(s))

\* The least index >= i of s that holds a token of T; Len(s) + 1 if none.
FirstOf(s, i, T) ==
    LET hits == {j \in i..Len(s) : s[j] \in T}
    IN  IF hits = {} THEN Len(s) + 1
        ELSE CHOOSE j \in hits : \A k \in hits : j <= k

\* The least index >= i of s that holds no whitespace; Len(s) + 1 if none.
SkipWS(s, i) ==
    LET hits == {j \in i..Len(s) : s[j] \notin Whitespace}
    IN  IF hits = {} THEN Len(s) + 1
        ELSE CHOOSE j \in hits : \A k \in hits : j <= k

Min(S) == CHOOSE x \in S : \A y \in S : x <= y

\* The characters of a decimal digit.
Digits == <<"0", "1", "2", "3", "4", "5", "6", "7", "8", "9">>

DigitSet == {Digits[i] : i \in 1..10}

DigitVal(c) == (CHOOSE i \in 1..10 : Digits[i] = c) - 1

\* str(n) of a natural number.
RECURSIVE NatToStr(_)
NatToStr(n) ==
    IF n < 10 THEN <<Digits[n + 1]>>
    ELSE NatToStr(n \div 10) \o <<Digits[(n % 10) + 1]>>

\* str(n) of an int.
IntToStr(n) == IF n < 0 THEN <<"-">> \o NatToStr(-n) ELSE NatToStr(n)

(***************************************************************************)
(* The arithmetic tool: calculator_run and Python's eval on the text it    *)
(* lets through.  A number is the rational n/d with d > 0, and f says that *)
(* it is a float.  A float literal stands for the float nearest to it,     *)
(* which repr() prints as the literal's decimal expansion.  The result of  *)
(* an operation on floats is determined when the operands and the exact    *)
(* result are dyadic rationals of small size: there float arithmetic is    *)
(* exact.  An evaluation ends in one of the states                         *)
(*   "ok"         a value the model determines;                            *)
(*   "syntax"     eval raises SyntaxError;                                 *)
(*   "div0"       eval raises ZeroDivisionError;                           *)
(*   "float"      a float that the model does not determine (a rounded     *)
(*                result, a negative zero): eval returns, and str() of     *)
(*                the value is some text of a float;                       *)
(*   "unmodelled" Python computes something this model has no account of   *)
(*                (a call, a tuple, the Ellipsis, a power of a float or to *)
(*                a large or negative exponent, a division by a float that *)
(*                is not determined).                                     *)
(* The texts of the exceptions are tokens that stand for str(exc).         *)
(***************************************************************************)

\* The character whitelist of calculator_run.
AllowedChars == DigitSet \cup {".", "+", "-", "*", "/", "(", ")", " "}

Lexeme(k, v) == [k |-> k, v |-> v]

\* The index after the longest run of digits of e that starts at i.
RECURSIVE NumEnd(_, _)
NumEnd(e, i) ==
    IF i <= Len(e) /\ e[i] \in DigitSet THEN NumEnd(e, i + 1) ELSE i

\* int(ds) of a run of digits.
RECURSIVE StrToNat(_)
StrToNat(ds) ==
    IF ds = <<>> THEN 0
    ELSE StrToNat(SubSeq(ds, 1, Len(ds) - 1)) * 10 + DigitVal(ds[Len(ds)])

Num(n, d, f) == [n |-> n, d |-> d, f |-> f]

NoVal == Num(0, 1, FALSE)

RECURSIVE Pow10(_)
Pow10(k) == IF k = 0 THEN 1 ELSE 10 * Pow10(k - 1)

RECURSIVE Gcd(_, _)
Gcd(a, b) == IF b = 0 THEN a ELSE Gcd(b, a % b)

\* The float literal whose digits before the point are whole and after it
\* frac, in lowest terms.
FloatLiteral(whole, frac, g) ==
    Num((StrToNat(whole) * Pow10(Len(frac)) + StrToNat(frac)) \div g,
        Pow10(Len(frac)) \div g, TRUE)

FloatOf(whole, frac) ==
    FloatLiteral(whole, frac,
                 Gcd(StrToNat(whole) * Pow10(Len(frac)) + StrToNat(frac),
                     Pow10(Len(frac))))

\* Python's tokenizer on e from index i: spaces separate; a number is a run
\* of digits (a leading zero on a non-zero int is an error), or digits, a
\* point and digits with digits on one side at least; "**", "//" and "..."
\* are single tokens.
RECURSIVE Lex(_, _)

\* The lexemes from the float e[i..j-1] "." e[j+1..m-1] on.
LexFloat(e, i, j, m) ==
    <<Lexeme("num", FloatOf(SubSeq(e, i, j - 1), SubSeq(e, j + 1, m - 1)))>>
    \o Lex(e, m)

\* The lexemes from a run of digits e[i..j-1] on.
LexNumber(e, i, j) ==
    IF j <= Len(e) /\ e[j] = "."
    THEN LexFloat(e, i, j, NumEnd(e, j + 1))
    ELSE IF j - i > 1 /\ e[i] = "0" /\ StrToNat(SubSeq(e, i, j - 1)) # 0
    THEN <<Lexeme("bad", NoVal)>> \o Lex(e, j)
    ELSE <<Lexeme("num", Num(StrToNat(SubSeq(e, i, j - 1)), 1, FALSE))>>
         \o Lex(e, j)

\* The lexemes from a point at e[i] on.
LexPoint(e, i) ==
    IF i < Len(e) /\ e[i + 1] \in DigitSet
    THEN LexFloat(e, i, i, NumEnd(e, i + 1))
    ELSE IF i + 2 <= Len(e) /\ e[i + 1] = "." /\ e[i + 2] = "."
    THEN <<Lexeme("...", NoVal)>> \o Lex(e, i + 3)
    ELSE <<Lexeme(".", NoVal)>> \o Lex(e, i + 1)

Lex(e, i) ==
    IF i > Len(e) THEN <<>>
    ELSE IF e[i] = " " THEN Lex(e, i + 1)
    ELSE IF e[i] \in DigitSet THEN LexNumber(e, i, NumEnd(e, i))
    ELSE IF e[i] = "." THEN LexPoint(e, i)
    ELSE IF e[i] = "*" /\ i < Len(e) /\ e[i + 1] = "*"
    THEN <<Lexeme("**", NoVal)>> \o Lex(e, i + 2)
    ELSE IF e[i] = "/" /\ i < Len(e) /\ e[i + 1] = "/"
    THEN <<Lexeme("//", NoVal)>> \o Lex(e, i + 2)
    ELSE <<Lexeme(e[i], NoVal)>> \o Lex(e, i + 1)

Abs(x) == IF x < 0 THEN -x ELSE x

RECURSIVE IsPow2(_)
IsPow2(d) == IF d = 1 THEN TRUE ELSE d % 2 = 0 /\ IsPow2(d \div 2)

\* The largest denominator and magnitude of a float the model accounts for.
FloatDenLimit == 1024
FloatMagLimit == 1000000
\* The largest exponent of a power the model accounts for.
PowLimit == 6

\* The result of a (sub)expression: state, index of the next lexeme, value.
Res(st, i, v) == [st |-> st, i |-> i, v |-> v]

\* n/d in lowest terms with a positive denominator, as an int or a float.
Reduced(n, d, f, g) ==
    Num((IF d < 0 THEN -n ELSE n) \div g, Abs(d) \div g, f)

Norm(n, d, f) == Reduced(n, d, f, Gcd(Abs(n), Abs(d)))

\* A float that float arithmetic is exact on.
Dyadic(v) ==
    IsPow2(v.d) /\ v.d <= FloatDenLimit /\ Abs(v.n) < FloatMagLimit * v.d

\* A value as the state of the evaluation that produced it.
Checked(v) == IF v.f /\ ~Dyadic(v) THEN "float" ELSE "ok"

\* floor(a / b) for b # 0.
FloorDiv(a, b) == IF b > 0 THEN a \div b ELSE (-a) \div (-b)

RECURSIVE IntPow(_, _)
IntPow(a, k) == IF k = 0 THEN 1 ELSE a * IntPow(a, k - 1)

\* The outcome of an operation whose exact value is v: a float zero of
\* negative sign (negzero) is not determined.
Outcome(v, negzero) ==
    [st |-> IF v.f /\ v.n = 0 /\ negzero THEN "float" ELSE Checked(v),
     v |-> v]

\* The outcome of an operation on a float that is not a dyadic rational.
Rounded == [st |-> "float", v |-> NoVal]

DivisionByZero == [st |-> "div0", v |-> NoVal]

\* The state and value of  a op b  in Python, a and b ints or dyadic floats.
Exact(op, a, b) ==
    CASE op = "+" ->
            Outcome(Norm(a.n * b.d + b.n * a.d, a.d * b.d, a.f \/ b.f), FALSE)
      [] op = "-" ->
            Outcome(Norm(a.n * b.d - b.n * a.d, a.d * b.d, a.f \/ b.f), FALSE)
      [] op = "*" ->
            Outcome(Norm(a.n * b.n, a.d * b.d, a.f \/ b.f),
                    a.n < 0 \/ b.n < 0)
      [] op = "/" ->
            IF b.n = 0 THEN DivisionByZero
            ELSE Outcome(Norm(a.n * b.d, a.d * b.n, TRUE), a.n < 0 \/ b.n < 0)
      [] op = "//" ->
            IF b.n = 0 THEN DivisionByZero
            ELSE Outcome(Num(FloorDiv(a.n * b.d, a.d * b.n), 1, a.f \/ b.f),
                         a.n < 0 \/ b.n < 0)
      [] op = "**" ->
            IF a.f \/ b.f \/ b.n < 0 \/ b.n > PowLimit
            THEN [st |-> "unmodelled", v |-> NoVal]
            ELSE [st |-> "ok", v |-> Num(IntPow(a.n, b.n), 1, FALSE)]

\* The state and value of  a op b  in Python.
BinOp(op, a, b) ==
    IF (a.f /\ ~Dyadic(a)) \/ (b.f /\ ~Dyadic(b))
    THEN IF op = "**" THEN [st |-> "unmodelled", v |-> NoVal]
         ELSE IF op \in {"/", "//"} /\ b.n = 0 THEN DivisionByZero
         ELSE Rounded
    ELSE Exact(op, a, b)

\* SyntaxError is raised before anything is evaluated, so it wins; of two
\* evaluation outcomes the earlier operand's comes first.
Worst(s, t) ==
    IF s = "syntax" \/ t = "syntax" THEN "syntax"
    ELSE IF s = "unmodelled" \/ t = "unmodelled" THEN "unmodelled"
    ELSE IF s = "div0" \/ t = "div0" THEN "div0"
    ELSE IF s = "float" \/ t = "float" THEN "float"
    ELSE "ok"

\* a op b where a or b is a float that is not determined: + - * give a
\* float, a division by a determined zero raises, and any other division or
\* power has no account.
OnRounded(op, b) ==
    IF op \in {"+", "-", "*"} THEN "float"
    ELSE IF op = "**" \/ b.st = "float" THEN "unmodelled"
    ELSE IF b.v.n = 0 THEN "div0"
    ELSE "float"

\* An outcome as the result of the expression that ends before lexeme i.
At(o, i) == Res(o.st, i, o.v)

\* a op b, where a and b are results, b ends the expression so far and w is
\* the worst of their states.
ApplyIn(op, a, b, w) ==
    IF w = "float" THEN Res(OnRounded(op, b), b.i, NoVal)
    ELSE IF w # "ok" THEN Res(w, b.i, NoVal)
    ELSE At(BinOp(op, a.v, b.v), b.i)

Apply(op, a, b) == ApplyIn(op, a, b, Worst(a.st, b.st))

\* -a and +a of a result.
Unary(op, a) ==
    IF a.st # "ok" THEN a
    ELSE IF op = "+" THEN a
    ELSE IF a.v.f /\ a.v.n = 0 THEN Res("float", a.i, NoVal)
    ELSE Res("ok", a.i, Num(-a.v.n, a.v.d, a.v.f))

\* Python's expression grammar on the lexemes l from index i:
\*   arith: term (('+'|'-') term)*     term: factor (('*'|'/'|'//') factor)*
\*   factor: ('+'|'-') factor | power
\*   power: atom trailer* ['**' factor]  trailer: '(' [['*'|'**'] arith] ')'
\*   atom: NUMBER | '...' | '(' ')' | '(' arith ')'
\* The Ellipsis, the empty tuple and a call parse, and the model has no
\* account of what they evaluate to.
RECURSIVE ParseArith(_, _)
RECURSIVE ParseArithRest(_, _)
RECURSIVE ParseTerm(_, _)
RECURSIVE ParseTermRest(_, _)
RECURSIVE ParseFactor(_, _)
RECURSIVE ParsePower(_, _)
RECURSIVE ParseAtom(_, _)
RECURSIVE Trailers(_, _)

ParseArith(l, i) == ParseArithRest(l, ParseTerm(l, i))

ParseArithRest(l, a) ==
    IF a.st = "syntax" THEN a
    ELSE IF a.i <= Len(l) /\ l[a.i].k \in {"+", "-"}
    THEN ParseArithRest(l, Apply(l[a.i].k, a, ParseTerm(l, a.i + 1)))
    ELSE a

\* A grammar without products and quotients.
ParseTermFactorOnly(l, i) == ParseFactor(l, i)

ParseTerm(l, i) == ParseTermRest(l, ParseFactor(l, i))

ParseTermRest(l, a) ==
    IF a.st = "syntax" THEN a
    ELSE IF a.i <= Len(l) /\ l[a.i].k \in {"*", "/", "//"}
    THEN ParseTermRest(l, Apply(l[a.i].k, a, ParseFactor(l, a.i + 1)))
    ELSE a

ParseFactor(l, i) ==
    IF i <= Len(l) /\ l[i].k \in {"+", "-"}
    THEN Unary(l[i].k, ParseFactor(l, i + 1))
    ELSE ParsePower(l, i)

\* A power, after its base a.
PowerRest(l, a) ==
    IF a.st = "syntax" THEN a
    ELSE IF a.i <= Len(l) /\ l[a.i].k = "**"
    THEN Apply("**", a, ParseFactor(l, a.i + 1))
    ELSE a

\* A call, after its argument r.
CallClose(l, r) ==
    IF r.st = "syntax" THEN r
    ELSE IF r.i <= Len(l) /\ l[r.i].k = ")"
    THEN Res("unmodelled", r.i + 1, NoVal)
    ELSE Res("syntax", r.i, NoVal)

\* A call, from the lexeme after its opening parenthesis.
Call(l, i) ==
    IF i <= Len(l) /\ l[i].k = ")" THEN Res("unmodelled", i + 1, NoVal)
    ELSE IF i <= Len(l) /\ l[i].k \in {"*", "**"}
    THEN CallClose(l, ParseArith(l, i + 1))
    ELSE CallClose(l, ParseArith(l, i))

\* The calls that follow the atom a.
Trailers(l, a) ==
    IF a.st = "syntax" THEN a
    ELSE IF a.i <= Len(l) /\ l[a.i].k = "(" THEN Trailers(l, Call(l, a.i + 1))
    ELSE a

ParsePower(l, i) == PowerRest(l, Trailers(l, ParseAtom(l, i)))

\* A parenthesis, after its inner expression r.
AtomClose(l, r) ==
    IF r.st = "syntax" THEN r
    ELSE IF r.i <= Len(l) /\ l[r.i].k = ")" THEN [r EXCEPT !.i = r.i + 1]
    ELSE Res("syntax", r.i, NoVal)

ParseAtom(l, i) ==
    IF i > Len(l) THEN Res("syntax", i, NoVal)
    ELSE IF l[i].k = "num" THEN Res("ok", i + 1, l[i].v)
    ELSE IF l[i].k = "..." THEN Res("unmodelled", i + 1, NoVal)
    ELSE IF l[i].k = "(" /\ i < Len(l) /\ l[i + 1].k = ")"
    THEN Res("unmodelled", i + 2, NoVal)
    ELSE IF l[i].k = "(" THEN AtomClose(l, ParseArith(l, i + 1))
    ELSE Res("syntax", i, NoVal)

\* The outcome of eval on lexemes l that parse with result r.
EvalParsed(l, r) ==
    IF r.st = "syntax" \/ r.i # Len(l) + 1
    THEN [st |-> "syntax", v |-> NoVal]
    ELSE [st |-> r.st, v |-> r.v]

EvalLexemes(l) == EvalParsed(l, ParseArith(l, 1))

\* eval(expression): [st, v].
eval(expression) == EvalLexemes(Lex(expression, 1))

\* The digits of the fraction rem/d, 0 <= rem < d, d a divisor of a power
\* of ten.
RECURSIVE FracDigits(_, _)
FracDigits(rem, d) ==
    IF rem = 0 THEN <<>>
    ELSE <<Digits[((rem * 10) \div d) + 1]>> \o FracDigits((rem * 10) % d, d)

\* str(result) of a float of magnitude a/d and the digits frac after the
\* point.
FloatToStr(negative, whole, frac) ==
    (IF negative THEN <<"-">> ELSE <<>>)
    \o NatToStr(whole) \o <<".">> \o (IF frac = <<>> THEN <<"0">> ELSE frac)

\* str(result) of an int or a float.
NumToStr(v) ==
    IF ~v.f THEN IntToStr(v.n)
    ELSE FloatToStr(v.n < 0, Abs(v.n) \div v.d,
                    FracDigits(Abs(v.n) % v.d, v.d))

\* str(exc) of the exception eval raised.
ExcText(st) ==
    CASE st = "syntax" -> <<"invalid syntax">>
      [] st = "div0" -> <<"division by zero">>

\* What a tool's run function does: it returns text or raises an exception
\* whose str() is the text.
Returned(text) == [raised |-> FALSE, text |-> text]
Raised(text) == [raised |-> TRUE, text |-> text]

\* What calculator_run returns when eval ends as r.
Evaluated(r) ==
    CASE r.st = "ok" -> Returned(NumToStr(r.v))
      [] r.st \in {"syntax", "div0"} ->
            Returned(<<"Error:", " ">> \o ExcText(r.st))
      [] r.st = "float" -> Returned(<<"str(float)">>)
      [] r.st = "unmodelled" -> Returned(<<"unmodelled">>)

\* calculator_run without its guard.
calculator_run_unguarded(expression) == Evaluated(eval(expression))

calculator_run(expression) ==
    IF \E i \in 1..Len(expression) : expression[i] \notin AllowedChars
    THEN Returned(<<"Invalid expression">>)
    ELSE Evaluated(eval(expression))

(***************************************************************************)
(* Python values, as eval(query) builds them and the rule engine reads     *)
(* them.  Every value is a record of the same shape, so that any two can   *)
(* be compared: t is the type; s the text of a str; n/d the value of a     *)
(* number (f: it is a float; a float that is not dyadic stands for the     *)
(* float nearest to n/d), and n is 1 or 0 for True and False; items the    *)
(* elements of a list or the values of a dict, whose keys are k, in        *)
(* insertion order.                                                        *)
(***************************************************************************)
PVal(t, s, n, d, f, k, items) ==
    [t |-> t, s |-> s, n |-> n, d |-> d, f |-> f, k |-> k, items |-> items]
PStr(s) == PVal("str", s, 0, 1, FALSE, <<>>, <<>>)
PNum(n, d, f) ==
    PVal("num", "", Norm(n, d, f).n, Norm(n, d, f).d, f, <<>>, <<>>)
PInt(n) == PNum(n, 1, FALSE)
PFloat(n, d) == PNum(n, d, TRUE)
PBool(b) == PVal("bool", "", IF b THEN 1 ELSE 0, 1, FALSE, <<>>, <<>>)
PNone == PVal("none", "", 0, 1, FALSE, <<>>, <<>>)
PList(items) == PVal("list", "", 0, 1, FALSE, <<>>, items)
PDict(keys, items) == PVal("dict", "", 0, 1, FALSE, keys, items)
EmptyDict == PDict(<<>>, <<>>)

\* A function's outcome: a returned value, or a raised exception.
Ret(v) == [raised |-> FALSE, val |-> v]
Exc(kind) == [raised |-> TRUE, val |-> PStr(kind)]

HasKey(d, key) == \E i \in 1..Len(d.k) : d.k[i] = key

\* d.get(key, default) of a dict d.
Get(d, key, default) ==
    IF HasKey(d, key)
    THEN d.items[CHOOSE i \in 1..Len(d.k) : d.k[i] = key]
    ELSE default

IsNone(x) == x.t = "none"
\* int, float and bool are the types Python orders against a number.
IsNumber(x) == x.t \in {"num", "bool"}
NumOf(x) == Num(x.n, x.d, x.f)

\* Exact arithmetic on numbers n/d.
QLess(a, b) == a.n * b.d < b.n * a.d
QAdd(a, b) ==
    LET g == Gcd(a.d, b.d)
        m == (a.d \div g) * b.d
    IN  Norm(a.n * (m \div a.d) + b.n * (m \div b.d), m, a.f \/ b.f)
QNeg(a) == Num(-a.n, a.d, a.f)
QMul(a, b) ==
    LET g1 == Gcd(Abs(a.n), b.d)
        g2 == Gcd(Abs(b.n), a.d)
    IN  Norm((a.n \div g1) * (b.n \div g2), (a.d \div g2) * (b.d \div g1),
             a.f \/ b.f)
QDivInt(a, k) == Norm(a.n, a.d * k, TRUE)

\* a == b in Python: numbers (bools among them) by value, the rest by
\* type and structure.
PyEq(a, b) ==
    IF IsNumber(a) /\ IsNumber(b) THEN a.n * b.d = b.n * a.d
    ELSE a.t = b.t /\ a.s = b.s /\ a.k = b.k /\ a.items = b.items

\* bool(x)
Truthy(x) ==
    CASE x.t = "none" -> FALSE
      [] x.t \in {"bool", "num"} -> x.n # 0
      [] x.t = "str" -> x.s # ""
      [] x.t = "list" -> x.items # <<>>
      [] x.t = "dict" -> x.k # <<>>

\* x in c: "yes", "no", or the exception Python raises.  A test for a
\* substring of a str is not modelled.
Contains(c, x) ==
    CASE c.t = "list" ->
            IF \E i \in 1..Len(c.items) : PyEq(c.items[i], x)
            THEN "yes" ELSE "no"
      [] c.t = "dict" -> IF x.t = "str" /\ HasKey(c, x.s) THEN "yes" ELSE "no"
      [] c.t = "str" -> "unmodelled"
      [] OTHER -> "TypeError"

(***************************************************************************)
(* The case tables and the rule engine (class Agent).                      *)
(***************************************************************************)
MedicalCases ==
    << [symptoms |-> <<"fever", "cough", "headache">>, diagnosis |-> "Flu"],
       [symptoms |-> <<"fever", "cough">>, diagnosis |-> "Common Cold"],
       [symptoms |-> <<"fever", "rash">>, diagnosis |-> "Measles"],
       [symptoms |-> <<"cough", "shortness of breath">>,
        diagnosis |-> "Asthma"] >>

LegalCases ==
    << PDict(<<"caseType", "signed", "outcome">>,
             <<PStr("contract"), PBool(FALSE),
               PStr("Contract declared void (no signature)")>>),
       PDict(<<"caseType", "signed", "outcome">>,
             <<PStr("contract"), PBool(TRUE),
               PStr("Contract enforced by court")>>),
       PDict(<<"caseType", "evidence", "outcome">>,
             <<PStr("criminal"), PStr("weak"), PStr("Not guilty verdict")>>),
       PDict(<<"caseType", "evidence", "outcome">>,
             <<PStr("criminal"), PStr("strong"), PStr("Guilty verdict")>>),
       PDict(<<"caseType", "outcome">>,
             <<PStr("civil"), PStr("Case settled out of court")>>) >>

\* The thresholds of the financial rules: 0.05 and 0.
ReturnThreshold == Num(1, 20, TRUE)
Zero == Num(0, 1, FALSE)

\* The financial rules with  exp_return >= 0.05  for  exp_return > 0.05.
DeductiveFinancialFromThreshold(user_input) ==
    LET data == Get(user_input, "data", EmptyDict)
    IN  IF data.t # "dict" THEN Exc("AttributeError")
        ELSE
        LET exp_return == Get(data, "expectedReturn", PNone)
            risk_level == Get(data, "riskLevel", PNone)
        IN  IF ~IsNone(exp_return) /\ ~IsNone(risk_level)
            THEN IF ~IsNumber(exp_return) THEN Exc("TypeError")
                 ELSE IF ~QLess(NumOf(exp_return), ReturnThreshold)
                         /\ PyEq(risk_level, PStr("low"))
                 THEN Ret(PStr("Decision: Invest (high return, low risk)"))
                 ELSE IF QLess(NumOf(exp_return), Zero)
                         \/ PyEq(risk_level, PStr("high"))
                 THEN Ret(PStr("Decision: Do Not Invest (insufficient return or high risk)"))
                 ELSE Ret(PStr("Decision: Hold (moderate return/risk)"))
            ELSE Ret(PNone)

\* apply_deductive for domain == "financial"
DeductiveFinancial(user_input) ==
    LET data == Get(user_input, "data", EmptyDict)
    IN  IF data.t # "dict" THEN Exc("AttributeError")
        ELSE
        LET exp_return == Get(data, "expectedReturn", PNone)
            risk_level == Get(data, "riskLevel", PNone)
        IN  IF ~IsNone(exp_return) /\ ~IsNone(risk_level)
            THEN IF ~IsNumber(exp_return) THEN Exc("TypeError")
                 ELSE IF QLess(ReturnThreshold, NumOf(exp_return))
                         /\ PyEq(risk_level, PStr("low"))
                 THEN Ret(PStr("Decision: Invest (high return, low risk)"))
                 ELSE IF QLess(NumOf(exp_return), Zero)
                         \/ PyEq(risk_level, PStr("high"))
                 THEN Ret(PStr("Decision: Do Not Invest (insufficient return or high risk)"))
                 ELSE Ret(PStr("Decision: Hold (moderate return/risk)"))
            ELSE Ret(PNone)

\* The exception of  x in c, if it raises one.
ContainsExc(c) ==
    IF Contains(c, PStr("fever")) = "unmodelled" THEN Exc("unmodelled")
    ELSE Exc("TypeError")

\* The medical rules with the heart attack rule first.
DeductiveMedicalHeartFirst(user_input) ==
    LET symptoms == Get(user_input, "symptoms", PList(<<>>))
        tests    == Get(user_input, "testResults", EmptyDict)
        has(x)   == Contains(symptoms, PStr(x)) = "yes"
    IN  IF Contains(symptoms, PStr("fever")) \notin {"yes", "no"}
        THEN ContainsExc(symptoms)
        ELSE IF has("chest pain") /\ has("shortness of breath")
        THEN Ret(PStr("Diagnosis: Possible Heart Attack (chest pain + breathing issues)"))
        ELSE IF has("fever") /\ has("rash")
        THEN Ret(PStr("Diagnosis: Measles (fever + rash)"))
        ELSE IF has("fever") /\ has("cough") /\ tests.t # "dict"
        THEN Exc("AttributeError")
        ELSE IF has("fever") /\ has("cough")
                /\ PyEq(Get(tests, "chestXRay", PNone), PStr("patchy"))
        THEN Ret(PStr("Diagnosis: Pneumonia (fever, cough, patchy x-ray)"))
        ELSE Ret(PNone)

\* apply_deductive for domain == "medical"
DeductiveMedical(user_input) ==
    LET symptoms == Get(user_input, "symptoms", PList(<<>>))
        tests    == Get(user_input, "testResults", EmptyDict)
        has(x)   == Contains(symptoms, PStr(x)) = "yes"
    IN  IF Contains(symptoms, PStr("fever")) \notin {"yes", "no"}
        THEN ContainsExc(symptoms)
        ELSE IF has("fever") /\ has("rash")
        THEN Ret(PStr("Diagnosis: Measles (fever + rash)"))
        ELSE IF has("fever") /\ has("cough") /\ tests.t # "dict"
        THEN Exc("AttributeError")
        ELSE IF has("fever") /\ has("cough")
                /\ PyEq(Get(tests, "chestXRay", PNone), PStr("patchy"))
        THEN Ret(PStr("Diagnosis: Pneumonia (fever, cough, patchy x-ray)"))
        ELSE IF has("chest pain") /\ has("shortness of breath")
        THEN Ret(PStr("Diagnosis: Possible Heart Attack (chest pain + breathing issues)"))
        ELSE Ret(PNone)

\* The legal rules with no regard to the consideration.
DeductiveLegalSignedOnly(user_input) ==
    LET case_type     == Get(user_input, "caseType", PNone)
        signed        == Get(user_input, "signed", PNone)
        evidence      == Get(user_input, "evidence", PNone)
    IN  IF PyEq(case_type, PStr("contract")) /\ signed = PBool(FALSE)
        THEN Ret(PStr("Legal Outcome: Contract invalid (no signature)"))
        ELSE IF PyEq(case_type, PStr("contract")) /\ signed = PBool(TRUE)
        THEN Ret(PStr("Legal Outcome: Contract likely enforceable"))
        ELSE IF PyEq(case_type, PStr("criminal"))
                /\ PyEq(evidence, PStr("strong"))
        THEN Ret(PStr("Legal Outcome: Likely conviction"))
        ELSE IF PyEq(case_type, PStr("criminal"))
                /\ PyEq(evidence, PStr("weak"))
        THEN Ret(PStr("Legal Outcome: Likely acquittal"))
        ELSE Ret(PNone)

\* apply_deductive for domain == "legal".  x is False  and  x is True  hold
\* of the bool alone;  x != False  is a comparison by value.
DeductiveLegal(user_input) ==
    LET case_type     == Get(user_input, "caseType", PNone)
        signed        == Get(user_input, "signed", PNone)
        consideration == Get(user_input, "consideration", PNone)
        evidence      == Get(user_input, "evidence", PNone)
    IN  IF PyEq(case_type, PStr("contract")) /\ signed = PBool(FALSE)
        THEN Ret(PStr("Legal Outcome: Contract invalid (no signature)"))
        ELSE IF PyEq(case_type, PStr("contract")) /\ signed = PBool(TRUE)
                /\ ~PyEq(consideration, PBool(FALSE))
        THEN Ret(PStr("Legal Outcome: Contract likely enforceable"))
        ELSE IF PyEq(case_type, PStr("criminal"))
                /\ PyEq(evidence, PStr("strong"))
        THEN Ret(PStr("Legal Outcome: Likely conviction"))
        ELSE IF PyEq(case_type, PStr("criminal"))
                /\ PyEq(evidence, PStr("weak"))
        THEN Ret(PStr("Legal Outcome: Likely acquittal"))
        ELSE Ret(PNone)

apply_deductive(domain, user_input) ==
    IF PyEq(domain, PStr("financial")) THEN DeductiveFinancial(user_input)
    ELSE IF PyEq(domain, PStr("medical")) THEN DeductiveMedical(user_input)
    ELSE IF PyEq(domain, PStr("legal")) THEN DeductiveLegal(user_input)
    ELSE Ret(PNone)

\* sum(returns) of a list of numbers, from index i on.
RECURSIVE SumFrom(_, _)
SumFrom(returns, i) ==
    IF i > Len(returns) THEN Zero
    ELSE QAdd(NumOf(returns[i]), SumFrom(returns, i + 1))

\* sum((r - mean) ** 2 for r in returns), from index i on.
RECURSIVE SumSqFrom(_, _, _)
SumSqFrom(returns, mean, i) ==
    IF i > Len(returns) THEN Zero
    ELSE LET dev == QAdd(NumOf(returns[i]), QNeg(mean))
         IN  QAdd(QMul(dev, dev), SumSqFrom(returns, mean, i + 1))

\* The squares of the two thresholds of the standard deviation, 0.1 and
\* 0.05:  variance ** 0.5 > 0.1  is  variance > 0.01.
HighVariance == Num(1, 100, TRUE)
LowVariance == Num(1, 400, TRUE)

AsPNum(q) == PNum(q.n, q.d, q.f)

\* The structured estimate of the financial domain.
Estimate(exp_return, risk_level) ==
    PDict(<<"estimatedReturn", "estimatedRisk", "note">>,
          <<exp_return, risk_level,
            PStr("Inductive estimates (no direct rule applied)")>>)

\* The end of the financial branch: decision is what apply_deductive made
\* of the two values.
FinancialResult(exp_return, risk_level, decision) ==
    IF decision.raised \/ Truthy(decision.val) THEN decision
    ELSE Ret(Estimate(exp_return, risk_level))

\* A branch that ends with the estimate whatever it knows.
FinancialEstimateOnly(exp_return, risk_level) ==
    Ret(Estimate(exp_return, risk_level))

FinancialDecide(exp_return, risk_level) ==
    IF ~IsNone(exp_return) /\ ~IsNone(risk_level)
    THEN FinancialResult(
             exp_return, risk_level,
             DeductiveFinancial(
                 PDict(<<"data">>,
                       <<PDict(<<"expectedReturn", "riskLevel">>,
                               <<exp_return, risk_level>>)>>)))
    ELSE Ret(Estimate(exp_return, risk_level))

\* The risk level of a variance.
RiskOf(variance) ==
    IF QLess(HighVariance, variance) THEN PStr("high")
    ELSE IF QLess(variance, LowVariance) THEN PStr("low")
    ELSE PStr("medium")

\* The second derivation: the risk level, from the deviations of returns
\* around exp_return.
FinancialRisk(exp_return, risk0, returns, derive2) ==
    IF derive2 /\ ~IsNumber(exp_return) THEN Exc("TypeError")
    ELSE IF derive2
    THEN FinancialDecide(
             exp_return,
             RiskOf(QDivInt(SumSqFrom(returns, NumOf(exp_return), 1),
                            Len(returns))))
    ELSE FinancialDecide(exp_return, risk0)

\* The first derivation: the expected return, the mean of returns.
FinancialReturn(exp0, risk0, past) ==
    LET returns == past.items
        numeric == \A i \in 1..Len(returns) : IsNumber(returns[i])
        derive1 == IsNone(exp0) /\ past.t = "list" /\ returns # <<>>
        derive2 == IsNone(risk0) /\ past.t = "list" /\ Len(returns) > 1
    IN  IF (derive1 \/ derive2) /\ ~numeric THEN Exc("TypeError")
        ELSE IF derive1
        THEN FinancialRisk(AsPNum(QDivInt(SumFrom(returns, 1), Len(returns))),
                           risk0, returns, derive2)
        ELSE FinancialRisk(exp0, risk0, returns, derive2)

InductiveFinancialData(data) ==
    IF data.t # "dict" THEN Exc("AttributeError")
    ELSE FinancialReturn(Get(data, "expectedReturn", PNone),
                         Get(data, "riskLevel", PNone),
                         Get(data, "pastReturns", PNone))

\* apply_inductive for domain == "financial"
InductiveFinancial(user_input) ==
    InductiveFinancialData(Get(user_input, "data", EmptyDict))

\* sum(1 for s in case_data["symptoms"] if s in symptoms)
MatchCount(case_data, symptoms) ==
    Cardinality({i \in 1..Len(case_data.symptoms) :
                    Contains(symptoms, PStr(case_data.symptoms[i])) = "yes"})

\* A loop that takes a case whose count is not below that of the best match
\* so far: of equal counts the last one stays.
RECURSIVE BestMatchLatest(_, _, _)
BestMatchLatest(symptoms, i, best) ==
    IF i > Len(medical_cases) THEN best
    ELSE LET match_count == MatchCount(medical_cases[i], symptoms)
         IN  IF match_count > 0
                /\ (best = 0
                    \/ match_count >= MatchCount(medical_cases[best], symptoms))
             THEN BestMatchLatest(symptoms, i + 1, i)
             ELSE BestMatchLatest(symptoms, i + 1, best)

\* The loop over medical_cases from index i on: the best match so far is the
\* index best of the table (0: none yet).
RECURSIVE BestMatch(_, _, _)
BestMatch(symptoms, i, best) ==
    IF i > Len(medical_cases) THEN best
    ELSE LET match_count == MatchCount(medical_cases[i], symptoms)
         IN  IF match_count > 0
                /\ (best = 0
                    \/ match_count > MatchCount(medical_cases[best], symptoms))
             THEN BestMatch(symptoms, i + 1, i)
             ELSE BestMatch(symptoms, i + 1, best)

\* The end of the medical branch: best_match indexes the table.
MedicalResult(best_match) ==
    IF best_match # 0
    THEN Ret(PStr("Possible Diagnosis: "
                  \o medical_cases[best_match].diagnosis
                  \o " (similar cases)"))
    ELSE Ret(PStr("Diagnosis unclear (no close match)"))

InductiveMedicalSymptoms(symptoms) ==
    IF Contains(symptoms, PStr("fever")) \notin {"yes", "no"}
    THEN ContainsExc(symptoms)
    ELSE MedicalResult(BestMatch(symptoms, 1, 0))

\* apply_inductive for domain == "medical"
InductiveMedical(user_input) ==
    InductiveMedicalSymptoms(Get(user_input, "symptoms", PList(<<>>)))

\* A loop that returns at a record of any case type.
LegalMatchAnyType(rec, user_input) ==
    \/ HasKey(rec, "signed")
       /\ PyEq(Get(rec, "signed", PNone), Get(user_input, "signed", PNone))
    \/ HasKey(rec, "evidence")
       /\ PyEq(Get(rec, "evidence", PNone),
               Get(user_input, "evidence", PNone))
    \/ ~HasKey(rec, "signed") /\ ~HasKey(rec, "evidence")

\* The condition under which the loop of the legal domain returns at rec.
LegalMatch(rec, user_input) ==
    /\ PyEq(Get(rec, "caseType", PNone), Get(user_input, "caseType", PNone))
    /\ \/ HasKey(rec, "signed")
          /\ PyEq(Get(rec, "signed", PNone), Get(user_input, "signed", PNone))
       \/ HasKey(rec, "evidence")
          /\ PyEq(Get(rec, "evidence", PNone),
                  Get(user_input, "evidence", PNone))
       \/ ~HasKey(rec, "signed") /\ ~HasKey(rec, "evidence")

\* The end of the legal branch: hits are the records that match.
LegalResult(hits) ==
    IF hits # {}
    THEN Ret(PStr("Likely Outcome: "
                  \o Get(legal_cases[Min(hits)], "outcome", PNone).s
                  \o " (similar past case)"))
    ELSE Ret(PStr("Outcome unclear (no similar cases)"))

\* apply_inductive for domain == "legal"
InductiveLegal(user_input) ==
    LegalResult({i \in 1..Len(legal_cases) :
                    LegalMatch(legal_cases[i], user_input)})

apply_inductive(domain, user_input) ==
    IF PyEq(domain, PStr("financial")) THEN InductiveFinancial(user_input)
    ELSE IF PyEq(domain, PStr("medical")) THEN InductiveMedical(user_input)
    ELSE IF PyEq(domain, PStr("legal")) THEN InductiveLegal(user_input)
    ELSE Ret(PNone)

\* x or default
OrElse(x, default) == IF Truthy(x) THEN x ELSE default

\* A result that is the function's outcome whatever it is.
SingleAsIs(out, none) ==
    IF out.raised THEN out
    ELSE Ret(PDict(<<"result">>, <<out.val>>))

\* reasoningType "deductive" or "inductive": the function's outcome out, or
\* the fixed sentence.
Single(out, none) ==
    IF out.raised THEN out
    ELSE Ret(PDict(<<"result">>, <<OrElse(out.val, PStr(none))>>))

\* reasoningType "both", after apply_inductive.
BothInductive(ind) ==
    IF ind.raised THEN ind
    ELSE Ret(PDict(<<"result", "reasoningUsed">>,
                   <<ind.val, PStr("inductive")>>))

\* A reasoningType "both" that goes on to apply_inductive whatever
\* apply_deductive gave.
BothFallingThrough(ded, domain, user_input) ==
    IF ded.raised THEN ded
    ELSE BothInductive(apply_inductive(domain, user_input))

\* reasoningType "both", after apply_deductive.
Both(ded, domain, user_input) ==
    IF ded.raised THEN ded
    ELSE IF Truthy(ded.val)
    THEN Ret(PDict(<<"result", "reasoningUsed">>,
                   <<ded.val, PStr("deductive")>>))
    ELSE BothInductive(apply_inductive(domain, user_input))

ProcessAs(reasoning_type, domain, user_input) ==
    IF PyEq(reasoning_type, PStr("deductive"))
    THEN Single(apply_deductive(domain, user_input),
                "No deductive conclusion possible with given info.")
    ELSE IF PyEq(reasoning_type, PStr("inductive"))
    THEN Single(apply_inductive(domain, user_input),
                "No inductive conclusion possible with given info.")
    ELSE Both(apply_deductive(domain, user_input), domain, user_input)

process_query(domain, user_input) ==
    ProcessAs(Get(user_input, "reasoningType", PStr("both")), domain,
              user_input)

\* The text (one word) that the tokens of s spell.
RECURSIVE Join(_)
Join(s) == IF s = <<>> THEN "" ELSE Head(s) \o Join(Tail(s))

\* repr(x) of a number: an int, a dyadic float, or the float nearest n/d.
NumRepr(x) ==
    IF ~x.f \/ Checked(NumOf(x)) = "ok" THEN Join(NumToStr(NumOf(x)))
    ELSE "float(" \o ToString(x.n) \o "/" \o ToString(x.d) \o ")"

\* str(x) of a value, a dict or list with its elements from index i on.
RECURSIVE PyRepr(_)
RECURSIVE ReprItems(_, _)
PyRepr(x) ==
    CASE x.t = "str" -> "'" \o x.s \o "'"
      [] x.t = "none" -> "None"
      [] x.t = "bool" -> IF x.n = 1 THEN "True" ELSE "False"
      [] x.t = "num" -> NumRepr(x)
      [] x.t = "list" -> "[" \o ReprItems(x, 1) \o "]"
      [] x.t = "dict" -> "{" \o ReprItems(x, 1) \o "}"

ReprItems(x, i) ==
    IF i > Len(x.items) THEN ""
    ELSE (IF x.t = "dict" THEN "'" \o x.k[i] \o "': " ELSE "")
         \o PyRepr(x.items[i])
         \o (IF i < Len(x.items) THEN ", " ELSE "")
         \o ReprItems(x, i + 1)

(***************************************************************************)
(* The tool registry and the two regular expressions of run_agent.         *)
(***************************************************************************)
Tools ==
    << [name |-> <<"Calculator">>,
        description |-> "Performs arithmetic calculations. Usage: Calculator[expression]",
        run |-> "calculator_run"] >>

\* A tool that gives its input back.
RunToolEcho(t, tool_input) == Returned(tool_input)

\* found_tool.run(tool_input)
RunTool(t, tool_input) ==
    IF t.run = "calculator_run" THEN calculator_run(tool_input)
    ELSE Raised(<<"not callable">>)

\* str.lower() of a word; the words of the model that hold an upper-case
\* letter and are compared after lower() are the spellings of the tool name.
LowerWord(w) ==
    IF w \in {"Calculator", "CALCULATOR"} THEN "calculator"
    ELSE IF w = "Search" THEN "search"
    ELSE w

\* A text as it is spelled.
SameCase(s) == s

lower(s) == [i \in 1..Len(s) |-> LowerWord(s[i])]

\* The loop over tools: the index of the first tool whose name matches
\* tool_name, 0 when found_tool stays None.
FindTool(tool_name) ==
    LET hits == {i \in 1..Len(tools) : lower(tools[i].name) = lower(tool_name)}
    IN  IF hits = {} THEN 0 ELSE Min(hits)

NoMatch == [found |-> FALSE, group1 |-> <<>>, group2 |-> <<>>]

\* Whether  Answer:\s*(.*)$  matches reply with its "Answer:" at index i.
\* \s* takes all the whitespace, (.*) the rest of that line, and $ holds at
\* the end of the text or before a newline that ends the text; no shorter
\* \s* or (.*) matches when these do not.
AnswerAt(reply, i) ==
    LET q == SkipWS(reply, i + 1)
        r == FirstOf(reply, q, {"\n"})
    IN  reply[i] = "Answer:" /\ r >= Len(reply)

\* re.search(r"Answer:\s*(.*)$", reply)
AnswerSearch(reply) ==
    LET starts == {i \in 1..Len(reply) : AnswerAt(reply, i)}
    IN  IF starts = {} THEN NoMatch
        ELSE LET i == Min(starts)
                 q == SkipWS(reply, i + 1)
                 r == FirstOf(reply, q, {"\n"})
             IN  [found |-> TRUE, group1 |-> SubSeq(reply, q, r - 1),
                  group2 |-> <<>>]

\* The match of  Action:\s*([^\[]+)\[([^\]]+)\]  with its "Action:" at index
\* i of reply.  \s* takes all the whitespace up to q and group 1 runs to the
\* first "[" at b; when the "[" is at q itself, \s* gives its last character
\* back to group 1.  Group 2 runs from b + 1 to the first "]" and is not
\* empty.
ActionAt(reply, i) ==
    LET q  == SkipWS(reply, i + 1)
        b  == FirstOf(reply, q, {"["})
        g1 == IF b > q THEN q ELSE q - 1
        e  == FirstOf(reply, b + 1, {"]"})
    IN  IF reply[i] = "Action:" /\ b <= Len(reply) /\ g1 > i
           /\ e <= Len(reply) /\ e > b + 1
        THEN [found |-> TRUE, group1 |-> SubSeq(reply, g1, b - 1),
              group2 |-> SubSeq(reply, b + 1, e - 1)]
        ELSE NoMatch

\* A search that gives the last match of the pattern, not the first.
ActionSearchLast(reply) ==
    LET starts == {i \in 1..Len(reply) : ActionAt(reply, i).found}
    IN  IF starts = {} THEN NoMatch
        ELSE ActionAt(reply, CHOOSE i \in starts : \A j \in starts : j <= i)

\* re.search(r"Action:\s*([^\[]+)\[([^\]]+)\]", reply)
ActionSearch(reply) ==
    LET starts == {i \in 1..Len(reply) : ActionAt(reply, i).found}
    IN  IF starts = {} THEN NoMatch ELSE ActionAt(reply, Min(starts))

(***************************************************************************)
(* The completion clients.  A response of the backend is                   *)
(*   [kind, code, text]: kind "content" is a 200 response whose content    *)
(*   is text; "status" a response with status code # 200 and body text;    *)
(*   "exception" an exception with str() text raised by the request or     *)
(*   while the response is read; "empty" a 200 response with no candidates *)
(*   (Gemini) or no choices (OpenRouter); "missing" one without the        *)
(*   content field; "nonstring" one whose content is not a str.            *)
(***************************************************************************)
Response(kind, code, text) == [kind |-> kind, code |-> code, text |-> text]

call_gemini(key, resp) ==
    IF ~key THEN <<"Gemini API key not configured.">>
    ELSE CASE resp.kind = "exception" ->
                <<"Gemini API error:", " ">> \o resp.text
           [] resp.kind = "status" ->
                <<"Gemini API error:", " ", resp.code, " ", "-", " ">>
                \o resp.text
           [] resp.kind = "empty" -> <<"Gemini API returned no candidates.">>
           [] resp.kind = "missing" -> <<>>
           [] resp.kind = "nonstring" ->
                <<"Gemini API response missing or invalid content.">>
           [] resp.kind = "content" -> resp.text

call_openrouter(key, resp) ==
    IF ~key THEN <<"OpenRouter API key not configured.">>
    ELSE CASE resp.kind = "exception" ->
                <<"OpenRouter API error:", " ">> \o resp.text
           [] resp.kind = "status" ->
                <<"OpenRouter API error:", " ", resp.code, " ", "-", " ">>
                \o resp.text
           [] resp.kind = "empty" ->
                <<"OpenRouter API error:", " ", "list index out of range">>
           [] resp.kind \in {"missing", "nonstring"} ->
                <<"LLM response missing or invalid.">>
           [] resp.kind = "content" -> resp.text

(***************************************************************************)
(* Queries.  A query is the text the caller sends (one word, q.text), the  *)
(* syntax it is written in and the value it denotes: "text" is free text,  *)
(* "json" a JSON document (true, false and null spelled so), "python" a    *)
(* Python literal (True, False, None).                                     *)
(***************************************************************************)
Query(text, syntax, value) == [text |-> text, syntax |-> syntax, value |-> value]

\* Whether a value holds a bool or a null somewhere.
RECURSIVE HasLiteral(_)
HasLiteral(x) ==
    \/ x.t \in {"bool", "none"}
    \/ \E i \in 1..Len(x.items) : HasLiteral(x.items[i])

\* eval(query): free text is no expression, and the names true, false and
\* null of a JSON document are not defined.
EvalQuery(q) ==
    IF q.syntax = "text" THEN Exc("SyntaxError")
    ELSE IF q.syntax = "json" /\ HasLiteral(q.value) THEN Exc("NameError")
    ELSE Ret(q.value)

\* The value of the local variable domain of run_agent after the try block,
\* parsed being what eval(query) gave.
DomainIn(parsed) ==
    IF ~parsed.raised /\ parsed.val.t = "dict" /\ HasKey(parsed.val, "domain")
    THEN Get(parsed.val, "domain", PNone)
    ELSE PNone

DomainOf(q) == DomainIn(EvalQuery(q))

ChatMessage(role, content) == [role |-> role, content |-> content]

tool_descriptions == Join(tools[1].name) \o ": " \o tools[1].description

system_prompt ==
    << "You are a smart assistant with access to these tools:\n"
       \o tool_descriptions
       \o "\n\nWhen answering user, you may use tools to gather info or calculate results. ..." >>

\* The transcript before the loop, or the exception that escapes.
WithPreliminary(head, preliminary) ==
    IF preliminary.raised
    THEN [raised |-> TRUE, val |-> <<preliminary.val.s>>]
    ELSE Ret(Append(head,
                    ChatMessage("system",
                                <<"Preliminary agentic reasoning result: "
                                  \o PyRepr(preliminary.val)>>)))

WithDomain(q, head, domain) ==
    IF ~Truthy(domain) THEN Ret(head)
    ELSE WithPreliminary(head, process_query(domain, EvalQuery(q).val))

\* run_agent up to its loop.
InitialMessages(q) ==
    WithDomain(q,
               << ChatMessage("system", system_prompt),
                  ChatMessage("user", <<q.text>>) >>,
               DomainOf(q))

(***************************************************************************)
(* The inputs of the model: the queries a caller sends and the responses   *)
(* of the completion backend.                                              *)
(***************************************************************************)
Queries ==
    { Query("What is 123 * 456?", "text", PNone),
      Query("{\"domain\": \"financial\", \"reasoningType\": \"deductive\", \"data\": {\"expectedReturn\": 0.06, \"riskLevel\": \"low\"}}",
            "json",
            PDict(<<"domain", "reasoningType", "data">>,
                  <<PStr("financial"), PStr("deductive"),
                    PDict(<<"expectedReturn", "riskLevel">>,
                          <<PFloat(6, 100), PStr("low")>>)>>)),
      Query("{\"domain\": \"invalid_domain\", \"reasoningType\": \"deductive\", \"data\": {}}",
            "json",
            PDict(<<"domain", "reasoningType", "data">>,
                  <<PStr("invalid_domain"), PStr("deductive"), EmptyDict>>)),
      Query("{\"city\": \"Oslo\", \"days\": 3}", "json",
            PDict(<<"city", "days">>, <<PStr("Oslo"), PInt(3)>>)),
      Query("{\"domain\": \"legal\", \"reasoningType\": \"deductive\", \"caseType\": \"contract\", \"signed\": false}",
            "json",
            PDict(<<"domain", "reasoningType", "caseType", "signed">>,
                  <<PStr("legal"), PStr("deductive"), PStr("contract"),
                    PBool(FALSE)>>)),
      Query("{\"domain\": \"financial\", \"data\": 5}", "json",
            PDict(<<"domain", "data">>, <<PStr("financial"), PInt(5)>>)) }

\* The query of a text.
QueryOf(text) == CHOOSE q \in Queries : q.text = text

\* The replies of a backend that is on script: it follows the protocol with
\* one tool action per reply, and ends with a final answer when it likes.
ScriptReply ==
    <<"Action:", " ", "Calculator", "[", "1", "2", "3", "*", "4", "5", "6", "]">>

ScriptAnswer ==
    <<"Thought: done", "\n", "Answer:", " ", "5", "6", "0", "8", "8">>

\* Other replies that lead to a tool step.
ActionReplies ==
    { <<"Action:", " ", "Calculator", "[", "7", "-", "9", "]">>,
      <<"Thought: divide", "\n",
        "Action:", "calculator", " ", "[", " ", "1", "/", "0", " ", "]", "\n">>,
      <<"Action:", " ", "Search", "[", "weather", "]">>,
      <<"Action:", " ", "CALCULATOR", "[", "two plus two", "]", "\n",
        "Action:", " ", "Calculator", "[", "2", "+", "2", "]">>,
      <<"Answer:", " ", "4", "\n",
        "Action:", " ", "Calculator", "[", "2", "*", "2", "]">> }

\* Replies that end the run.
FinalReplies ==
    { <<"Answer:", " ", " ", "4", "2", " ", "\n">>,
      <<"Action:", " ", "Calculator", "[", "2", "+", "2", "]", " ",
        "Answer:", " ", "4">>,
      <<"Answer:", " ", "x", "\n", "Answer:", "y">>,
      <<"Answer:", "\n", "Action:", " ", "Calculator", "[", "1", "]">>,
      <<"Answer:", " ">>,
      <<" ", "The result is 56088.", "\n">>,
      <<"The domain is not supported.">>,
      <<"Action:", "[", "7", "]">>,
      <<>> }

Replies == {ScriptReply, ScriptAnswer} \cup ActionReplies \cup FinalReplies

\* What the backend may do instead of answering with a content.
Failures ==
    { Response("status", "500", <<"Internal Server Error">>),
      Response("status", "429",
               <<"quota exceeded,", " ", "retry.", "\n", "Answer:", " ", "later">>),
      Response("exception", "", <<"Read timed out.">>),
      Response("empty", "", <<>>),
      Response("missing", "", <<>>),
      Response("nonstring", "", <<>>) }

Responses == {Response("content", "200", r) : r \in Replies} \cup Failures

OnScript == {Response("content", "200", r) : r \in {ScriptReply, ScriptAnswer}}

\* The number of responses of one run that may leave the script.
MaxOffScript == 1

(***************************************************************************)
(* The state.                                                              *)
(***************************************************************************)
VARIABLES
    GEMINI_API_KEY,      \* whether the module holds a Gemini key
    OPENROUTER_API_KEY,  \* whether the module holds an OpenRouter key
    pc,                  \* where the program is
    query,               \* run_agent: the query
    messages,            \* run_agent: the transcript
    step,                \* run_agent: the iterations of the loop begun
    reply,               \* run_agent: the reply of this iteration
    result,              \* run_agent: what it returned or raised
    offScript,           \* backend: responses of this run that left the script
    upstream,            \* history: the kind of the last response
    calls,               \* history: completion calls of this run
    toolRuns,            \* history: tool invocations of this run
    actions,             \* history: replies of this run that led to a tool step
    sent,                \* history: the transcript the last completion call got
    current,             \* which of two concurrent queries the above are of
    suspended,           \* the same of the other query, which waits
    args,                \* the arguments of a function that is called alone
    returned,            \* what that function returned
    invoked,             \* history: the methods that function called, in order
    environ,             \* os.environ: which of the two keys it holds
    backendCalls         \* history: the backends that completion calls went to

\* What a single query leaves alone: the other query, the calls of single
\* functions and the environment.
outside == << current, suspended, args, returned, invoked, environ >>

vars ==
    << GEMINI_API_KEY, OPENROUTER_API_KEY, pc, query, messages, step, reply,
       result, offScript, upstream, calls, toolRuns, actions, sent, shared,
       outside, backendCalls >>

\* The bound of the ReAct loop: range(10).
MaxSteps == 10

NoResult == [kind |-> "none", text |-> <<>>]
Returns(text) == [kind |-> "returned", text |-> text]
Raises(text) == [kind |-> "raised", text |-> text]

StepLimitError == <<"No final answer produced within step limit.">>

NoArgs == <<>>
NotReturned == [raised |-> FALSE, val |-> "nothing"]

\* The module's data as the module builds it.
SharedInit ==
    /\ tools = Tools
    /\ medical_cases = MedicalCases
    /\ legal_cases = LegalCases

\* No query has begun.
NoRun ==
    [pc |-> "idle", query |-> "", messages |-> <<>>, step |-> 0,
     reply |-> <<>>, result |-> NoResult, offScript |-> 0,
     upstream |-> "none", calls |-> 0, toolRuns |-> 0, actions |-> 0,
     sent |-> <<>>]

\* One query at a time, and no function called alone.
OutsideInit ==
    /\ current = 1
    /\ suspended = NoRun
    /\ args = NoArgs
    /\ returned = NotReturned
    /\ invoked = <<>>

\* The environment as the module found it at its import, and no completion
\* call yet.
EnvironInit ==
    /\ environ = [GEMINI_API_KEY |-> GEMINI_API_KEY,
                  OPENROUTER_API_KEY |-> OPENROUTER_API_KEY]
    /\ backendCalls = {}

\* No query has been taken.
NoQuery ==
    /\ query = ""
    /\ messages = <<>>
    /\ step = 0
    /\ reply = <<>>
    /\ result = NoResult
    /\ offScript = 0
    /\ upstream = "none"
    /\ calls = 0
    /\ toolRuns = 0
    /\ actions = 0
    /\ sent = <<>>

\* The process starts: the environment holds any of the two keys.
Init ==
    /\ SharedInit
    /\ OutsideInit
    /\ GEMINI_API_KEY \in BOOLEAN
    /\ OPENROUTER_API_KEY \in BOOLEAN
    /\ EnvironInit
    /\ pc = "import"
    /\ query = ""
    /\ messages = <<>>
    /\ step = 0
    /\ reply = <<>>
    /\ result = NoResult
    /\ offScript = 0
    /\ upstream = "none"
    /\ calls = 0
    /\ toolRuns = 0
    /\ actions = 0
    /\ sent = <<>>

\* An import that lets the module load whatever keys are set.
ModuleImportLenient ==
    /\ pc = "import"
    /\ pc' = "idle"
    /\ UNCHANGED << shared, outside, GEMINI_API_KEY, OPENROUTER_API_KEY, query, messages, step,
                    reply, result, offScript, upstream, calls, toolRuns,
                    actions, sent, backendCalls >>

\* The module is imported: without any key it raises ValueError.
ModuleImport ==
    /\ pc = "import"
    /\ pc' = IF ~GEMINI_API_KEY /\ ~OPENROUTER_API_KEY
             THEN "import_error" ELSE "idle"
    /\ UNCHANGED << shared, outside, GEMINI_API_KEY, OPENROUTER_API_KEY, query, messages, step,
                    reply, result, offScript, upstream, calls, toolRuns,
                    actions, sent, backendCalls >>

\* run_agent(q) up to its loop, initial being the outcome of that part.
Started(q, initial) ==
    /\ query' = q.text
    /\ messages' = IF initial.raised THEN <<>> ELSE initial.val
    /\ pc' = IF initial.raised THEN "FAILED" ELSE "AWAITING_MODEL"
    /\ result' = IF initial.raised THEN Raises(initial.val) ELSE NoResult

StartQuery(q) ==
    /\ pc \in {"idle", "DONE", "FAILED"}
    /\ Started(q, InitialMessages(q))
    /\ step' = 0
    /\ reply' = <<>>
    /\ offScript' = 0
    /\ upstream' = "none"
    /\ calls' = 0
    /\ toolRuns' = 0
    /\ actions' = 0
    /\ sent' = <<>>
    /\ UNCHANGED << shared, outside, GEMINI_API_KEY, OPENROUTER_API_KEY,
                    backendCalls >>

\* A loop that runs one iteration more.
LoopContinuesOnceMore(n) == n <= MaxSteps

\* The condition of the for loop: another iteration begins.
LoopContinues(n) == n < MaxSteps

\* An iteration that keeps a reply that asks for a tool out of the
\* transcript.
CalledDroppingActions(assistant_reply) ==
    /\ reply' = assistant_reply
    /\ messages' = IF ActionSearch(assistant_reply).found THEN messages
                   ELSE Append(messages,
                               ChatMessage("assistant", assistant_reply))
    /\ pc' = "PARSING_REPLY"
    /\ result' = result

\* The head of an iteration of the loop: one completion call, and its reply
\* appended to the transcript.
Called(assistant_reply) ==
    /\ reply' = assistant_reply
    /\ messages' = Append(messages, ChatMessage("assistant", assistant_reply))
    /\ pc' = "PARSING_REPLY"
    /\ result' = result

\* A loop that looks the keys up in the environment at every iteration.
CallModelFromEnviron(resp) ==
    /\ pc = "AWAITING_MODEL"
    /\ \/ resp \in OnScript /\ offScript' = offScript
       \/ resp \notin OnScript /\ offScript < MaxOffScript
          /\ offScript' = offScript + 1
    /\ step' = step + 1
    /\ IF environ.GEMINI_API_KEY
       THEN /\ Called(call_gemini(environ.GEMINI_API_KEY, resp))
            /\ sent' = messages
            /\ backendCalls' = backendCalls \cup {"call_gemini"}
       ELSE IF environ.OPENROUTER_API_KEY
       THEN /\ Called(call_openrouter(environ.OPENROUTER_API_KEY, resp))
            /\ sent' = messages
            /\ backendCalls' = backendCalls \cup {"call_openrouter"}
       ELSE /\ pc' = "DONE"
            /\ result' = Returns(<<"No API key configured.">>)
            /\ UNCHANGED << reply, messages, sent, backendCalls >>
    /\ upstream' = resp.kind
    /\ calls' = calls + 1
    /\ UNCHANGED << shared, outside, GEMINI_API_KEY, OPENROUTER_API_KEY, query, toolRuns,
                    actions >>

\* One iteration up to the reply: the backend is that of the module's keys.
CallModel(resp) ==
    /\ pc = "AWAITING_MODEL"
    /\ \/ resp \in OnScript /\ offScript' = offScript
       \/ resp \notin OnScript /\ offScript < MaxOffScript
          /\ offScript' = offScript + 1
    /\ step' = step + 1
    /\ IF GEMINI_API_KEY
       THEN /\ Called(call_gemini(GEMINI_API_KEY, resp))
            /\ sent' = messages
            /\ backendCalls' = backendCalls \cup {"call_gemini"}
       ELSE IF OPENROUTER_API_KEY
       THEN /\ Called(call_openrouter(OPENROUTER_API_KEY, resp))
            /\ sent' = messages
            /\ backendCalls' = backendCalls \cup {"call_openrouter"}
       ELSE /\ pc' = "DONE"
            /\ result' = Returns(<<"No API key configured.">>)
            /\ UNCHANGED << reply, messages, sent, backendCalls >>
    /\ upstream' = resp.kind
    /\ calls' = calls + 1
    /\ UNCHANGED << shared, outside, GEMINI_API_KEY, OPENROUTER_API_KEY, query, toolRuns,
                    actions >>

\* The observation of a tool that ended as out.
Observed(out) ==
    IF out.raised
    THEN [ran |-> TRUE, obs |-> <<"Error:", " ">> \o out.text]
    ELSE [ran |-> TRUE, obs |-> out.text]

\* The observation of a tool step, found_tool being the index of the tool
\* in the registry (0: none): [ran, obs].
ObserveWith(found_tool, name, input) ==
    IF found_tool = 0
    THEN [ran |-> FALSE, obs |-> <<"Tool \"">> \o name \o <<"\" not found">>]
    ELSE Observed(RunTool(tools[found_tool], input))

Observe(name, input) == ObserveWith(FindTool(name), name, input)

\* A tool step that gives up the run when the tool reports an error.
ToolStepAbort(o) ==
    /\ toolRuns' = IF o.ran THEN toolRuns + 1 ELSE toolRuns
    /\ actions' = actions + 1
    /\ IF o.obs # <<>> /\ o.obs[1] = "Error:"
       THEN /\ pc' = "FAILED"
            /\ result' = Raises(o.obs)
            /\ messages' = messages
       ELSE /\ messages' = Append(messages,
                                  ChatMessage("system",
                                              <<"Observation:", " ">> \o o.obs))
            /\ IF LoopContinues(step)
               THEN pc' = "AWAITING_MODEL" /\ result' = result
               ELSE pc' = "FAILED" /\ result' = Raises(StepLimitError)

\* The tool step of an iteration, o being its observation, and the end of
\* the iteration: the loop goes on, or it is exhausted and run_agent raises
\* ValueError.
ToolStep(o) ==
    /\ messages' = Append(messages,
                          ChatMessage("system", <<"Observation:", " ">> \o o.obs))
    /\ toolRuns' = IF o.ran THEN toolRuns + 1 ELSE toolRuns
    /\ actions' = actions + 1
    /\ IF LoopContinues(step)
       THEN pc' = "AWAITING_MODEL" /\ result' = result
       ELSE pc' = "FAILED" /\ result' = Raises(StepLimitError)

\* run_agent returns text.
Return(text) ==
    /\ pc' = "DONE"
    /\ result' = Returns(text)
    /\ UNCHANGED << messages, toolRuns, actions >>

\* The iteration ends with nothing done.
Continue ==
    /\ IF LoopContinues(step)
       THEN pc' = "AWAITING_MODEL" /\ result' = result
       ELSE pc' = "FAILED" /\ result' = Raises(StepLimitError)
    /\ UNCHANGED << messages, toolRuns, actions >>

\* A loop that goes on until a reply holds a marker.
HandleUntilMarker(answer_match, action_match) ==
    IF answer_match # <<>> THEN Return(answer_match)
    ELSE IF action_match.found
    THEN ToolStep(Observe(strip(action_match.group1),
                          strip(action_match.group2)))
    ELSE Continue

\* A loop that returns a reply without markers as it is.
HandleUntrimmed(answer_match, action_match) ==
    IF answer_match # <<>> THEN Return(answer_match)
    ELSE IF action_match.found
    THEN ToolStep(Observe(strip(action_match.group1),
                          strip(action_match.group2)))
    ELSE Return(reply)

\* A loop that looks for the action before the answer.
HandleActionFirst(answer_match, action_match) ==
    IF action_match.found
    THEN ToolStep(Observe(strip(action_match.group1),
                          strip(action_match.group2)))
    ELSE IF answer_match # <<>> THEN Return(answer_match)
    ELSE Return(strip(reply))

\* The rest of an iteration: answer_match is the answer found in the reply
\* and action_match the match of the action.
Handle(answer_match, action_match) ==
    IF answer_match # <<>> THEN Return(answer_match)
    ELSE IF action_match.found
    THEN ToolStep(Observe(strip(action_match.group1),
                          strip(action_match.group2)))
    ELSE Return(strip(reply))

\* answer_match of run_agent: None is the empty text, which the test
\* "if answer_match" treats alike.
AnswerMatch(text) == strip(AnswerSearch(text).group1)

HandleReply ==
    /\ pc = "PARSING_REPLY"
    /\ Handle(AnswerMatch(reply), ActionSearch(reply))
    /\ UNCHANGED << shared, outside, GEMINI_API_KEY, OPENROUTER_API_KEY, query, step, reply,
                    offScript, upstream, calls, sent, backendCalls >>

Next ==
    \/ ModuleImport
    \/ \E q \in Queries : StartQuery(q)
    \/ \E resp \in Responses : CallModel(resp)
    \/ HandleReply

Spec == Init /\ [][Next]_vars

(***************************************************************************)
(* Two queries at a time.  The variables of run_agent are local to one     *)
(* call of it: while a query waits for its completion call the other one   *)
(* runs, with its own.  The keys, the tool registry and the case tables    *)
(* are the module's, and so the same for both.                             *)
(***************************************************************************)

\* The local variables of the running query.
Locals ==
    [pc |-> pc, query |-> query, messages |-> messages, step |-> step,
     reply |-> reply, result |-> result, offScript |-> offScript,
     upstream |-> upstream, calls |-> calls, toolRuns |-> toolRuns,
     actions |-> actions, sent |-> sent]

\* A run_agent whose transcript is the module's, not its own.
ResumeSharingTranscript(saved) ==
    /\ pc' = saved.pc
    /\ query' = saved.query
    /\ messages' = messages
    /\ step' = saved.step
    /\ reply' = saved.reply
    /\ result' = saved.result
    /\ offScript' = saved.offScript
    /\ upstream' = saved.upstream
    /\ calls' = saved.calls
    /\ toolRuns' = saved.toolRuns
    /\ actions' = saved.actions
    /\ sent' = saved.sent

\* The query that waited goes on, with the local variables it had.
Resume(saved) ==
    /\ pc' = saved.pc
    /\ query' = saved.query
    /\ messages' = saved.messages
    /\ step' = saved.step
    /\ reply' = saved.reply
    /\ result' = saved.result
    /\ offScript' = saved.offScript
    /\ upstream' = saved.upstream
    /\ calls' = saved.calls
    /\ toolRuns' = saved.toolRuns
    /\ actions' = saved.actions
    /\ sent' = saved.sent

\* The running query waits (before it begins, at a completion call or after
\* its end) and the other one runs.
Switch ==
    /\ pc \in {"idle", "AWAITING_MODEL", "DONE", "FAILED"}
    /\ suspended' = Locals
    /\ current' = 3 - current
    /\ Resume(suspended)
    /\ UNCHANGED << shared, GEMINI_API_KEY, OPENROUTER_API_KEY, args,
                    returned, invoked, environ, backendCalls >>

\* The queries of the two callers.
ConcurrentQuery(id) ==
    IF id = 1 THEN QueryOf("What is 123 * 456?")
    ELSE QueryOf("{\"domain\": \"financial\", \"reasoningType\": \"deductive\", \"data\": {\"expectedReturn\": 0.06, \"riskLevel\": \"low\"}}")

\* The responses of their backend: it asks for the calculator, and may
\* answer after any of its replies.
ConcurrentResponses ==
    { Response("content", "200", ScriptReply),
      Response("content", "200", ScriptAnswer) }

\* The module is imported, with the key of Gemini.
InitConcurrent ==
    /\ SharedInit
    /\ OutsideInit
    /\ GEMINI_API_KEY = TRUE
    /\ OPENROUTER_API_KEY = FALSE
    /\ EnvironInit
    /\ pc = "idle"
    /\ query = ""
    /\ messages = <<>>
    /\ step = 0
    /\ reply = <<>>
    /\ result = NoResult
    /\ offScript = 0
    /\ upstream = "none"
    /\ calls = 0
    /\ toolRuns = 0
    /\ actions = 0
    /\ sent = <<>>

NextConcurrent ==
    \/ StartQuery(ConcurrentQuery(current))
    \/ \E resp \in ConcurrentResponses : CallModel(resp)
    \/ HandleReply
    \/ Switch

SpecConcurrent == InitConcurrent /\ [][NextConcurrent]_vars

(***************************************************************************)
(* One query whose backend sends replies with more than one "Action:".     *)
(***************************************************************************)

\* Replies with two markers: both of the form  Action: name[input];  the
\* first without a tool name; the first with an empty input; the first for
\* a tool that is not registered; the first without brackets.
MarkerReplies ==
    { <<"Action:", " ", "Calculator", "[", "1", "+", "1", "]", "\n",
        "Action:", " ", "Calculator", "[", "2", "+", "2", "]">>,
      <<"Action:", "[", "7", "]", " ",
        "Action:", " ", "Calculator", "[", "1", "+", "1", "]">>,
      <<"Action:", " ", "Calculator", "[", "]", "\n",
        "Action:", " ", "Calculator", "[", "2", "+", "2", "]">>,
      <<"Action:", " ", "Search", "[", "x", "]", "\n",
        "Action:", " ", "Calculator", "[", "2", "+", "2", "]">>,
      <<"Action:", " ", "Calculator 1+1", "\n",
        "Action:", " ", "Calculator", "[", "2", "+", "2", "]">> }

MarkerResponses ==
    OnScript \cup {Response("content", "200", r) : r \in MarkerReplies}

\* The module is imported, with the key of Gemini.
InitMarkers ==
    /\ SharedInit
    /\ OutsideInit
    /\ GEMINI_API_KEY = TRUE
    /\ OPENROUTER_API_KEY = FALSE
    /\ EnvironInit
    /\ pc = "idle"
    /\ NoQuery

NextMarkers ==
    \/ StartQuery(ConcurrentQuery(1))
    \/ \E resp \in MarkerResponses : CallModel(resp)
    \/ HandleReply

SpecMarkers == InitMarkers /\ [][NextMarkers]_vars

(***************************************************************************)
(* Queries of a process whose environment changes after the import, as     *)
(* the tests of the API keys change it.                                    *)
(***************************************************************************)

\* What the environment may hold of the two keys.
Environs == [GEMINI_API_KEY : BOOLEAN, OPENROUTER_API_KEY : BOOLEAN]

\* os.environ[...] = ...  and  os.environ.pop(...)  after the import.
SetEnviron(e) ==
    /\ pc \notin {"import", "import_error"}
    /\ e # environ
    /\ environ' = e
    /\ UNCHANGED << shared, GEMINI_API_KEY, OPENROUTER_API_KEY, pc, query,
                    messages, step, reply, result, offScript, upstream,
                    calls, toolRuns, actions, sent, current, suspended,
                    args, returned, invoked, backendCalls >>

\* The responses of the backend: those of the script, and an error.
BackendResponses ==
    OnScript \cup {Response("status", "500", <<"Internal Server Error">>)}

NextBackend ==
    \/ ModuleImport
    \/ StartQuery(ConcurrentQuery(1))
    \/ \E resp \in BackendResponses : CallModel(resp)
    \/ HandleReply
    \/ \E e \in Environs : SetEnviron(e)

SpecBackend == Init /\ [][NextBackend]_vars

(***************************************************************************)
(* calculator_run called alone, on one expression.                         *)
(***************************************************************************)

\* The length of the texts that are tried character by character, and the
\* largest operand of the expressions that are tried shape by shape.
MaxExprLen == 3
MaxOperand == 3

\* The characters of the texts: of the whitelist, and one outside it.
ExprChars == {"0", "1", "2", ".", "+", "-", "*", "/", "(", ")", " ", "a"}

Texts == UNION {[1..k -> ExprChars] : k \in 0..MaxExprLen}

Operators == {"+", "-", "*", "/"}

Operands == {Digits[n + 1] : n \in 0..MaxOperand}

\* The expressions  a o b,  a o b p c,  (a o b) p c  and  a o (b p c).
Shaped ==
    UNION { { <<a, o, b>>,
              <<a, o, b, p, c>>,
              <<"(", a, o, b, ")", p, c>>,
              <<a, o, "(", b, p, c, ")">> } :
            a \in Operands, b \in Operands, c \in Operands,
            o \in Operators, p \in Operators }

\* Longer expressions, among them that of the calculator test.
Longer ==
    { <<"1", "2", "3", "*", "4", "5", "6">>,
      <<" ", "7", " ", "-", " ", "9", " ">>,
      <<"0", ".", "5", "+", "0", ".", "2", "5">>,
      <<"1", ".", "5", "*", "2">>,
      <<"0", ".", "1", "+", "0", ".", "2">>,
      <<"2", "*", "*", "3">>,
      <<"7", "/", "/", "2">>,
      <<"0", "0", "7", "+", "1">>,
      <<"2", "+", "2", "=">>,
      <<"1", "/", "0", " ", "x">>,
      <<"two plus two">> }

\* The expressions calculator_run is called on: those the model has an
\* account of.
Expressions ==
    {e \in Texts \cup Shaped \cup Longer : eval(e).st # "unmodelled"}

InitCalculator ==
    /\ SharedInit
    /\ GEMINI_API_KEY = TRUE
    /\ OPENROUTER_API_KEY = FALSE
    /\ EnvironInit
    /\ NoQuery
    /\ current = 1
    /\ suspended = NoRun
    /\ pc = "calling"
    /\ args \in {<<e>> : e \in Expressions}
    /\ returned = NotReturned
    /\ invoked = <<>>

\* calculator_run(expression)
CallCalculator ==
    /\ pc = "calling"
    /\ pc' = "returned"
    /\ returned' = calculator_run(args[1])
    /\ UNCHANGED << shared, GEMINI_API_KEY, OPENROUTER_API_KEY, query,
                    messages, step, reply, result, offScript, upstream,
                    calls, toolRuns, actions, sent, current, suspended,
                    args, invoked, environ, backendCalls >>

SpecCalculator == InitCalculator /\ [][CallCalculator]_vars

(***************************************************************************)
(* Agent.apply_deductive called alone, on one domain and one input.        *)
(***************************************************************************)

\* A field of an input that may be left out.
Absent == PStr("<absent>")

\* The dict of the fields that are not left out, from field i on.
RECURSIVE KeysFrom(_, _, _)
KeysFrom(keys, values, i) ==
    IF i > Len(keys) THEN <<>>
    ELSE (IF values[i] = Absent THEN <<>> ELSE <<keys[i]>>)
         \o KeysFrom(keys, values, i + 1)

DictOf(keys, values) ==
    PDict(KeysFrom(keys, values, 1),
          SelectSeq(values, LAMBDA v : v # Absent))

\* The expected returns and the risk levels that are tried.
ExpectedReturns ==
    { Absent, PNone, PFloat(-1, 100), PInt(0), PFloat(1, 20), PFloat(3, 50),
      PFloat(1, 2), PInt(1), PBool(TRUE) }

RiskLevels ==
    { Absent, PNone, PStr("low"), PStr("medium"), PStr("high"), PInt(5) }

FinancialFields ==
    { DictOf(<<"expectedReturn", "riskLevel">>, <<e, r>>) :
        e \in ExpectedReturns, r \in RiskLevels }

\* The financial inputs: the two values in the data object, or beside it.
FinancialInputs ==
    { DictOf(<<"data">>, <<d>>) : d \in FinancialFields }
    \cup { d \in FinancialFields : Len(d.k) = 2 }

Symptoms ==
    <<"fever", "rash", "cough", "chest pain", "shortness of breath">>

\* The names of Symptoms at the indices in S, in the order of Symptoms.
SymptomList(S) ==
    PList(SelectSeq([i \in 1..Len(Symptoms) |->
                        IF i \in S THEN PStr(Symptoms[i]) ELSE Absent],
                    LAMBDA v : v # Absent))

TestResults ==
    { Absent, EmptyDict,
      DictOf(<<"chestXRay">>, <<PStr("patchy")>>),
      DictOf(<<"chestXRay">>, <<PStr("clear")>>) }

MedicalInputs ==
    { DictOf(<<"symptoms", "testResults">>, <<SymptomList(S), t>>) :
        S \in SUBSET (1..Len(Symptoms)), t \in TestResults }
    \cup { DictOf(<<"symptoms", "testResults">>, <<Absent, t>>) :
             t \in TestResults }

LegalInputs ==
    { DictOf(<<"caseType", "signed", "consideration", "evidence">>,
             <<c, g, n, v>>) :
        c \in {Absent, PStr("contract"), PStr("criminal"), PStr("civil")},
        g \in {Absent, PNone, PBool(TRUE), PBool(FALSE), PInt(0), PInt(1)},
        n \in {Absent, PBool(TRUE), PBool(FALSE), PInt(0)},
        v \in {Absent, PStr("strong"), PStr("weak"), PStr("none")} }

DeductiveCalls ==
    { <<PStr("financial"), u>> : u \in FinancialInputs }
    \cup { <<PStr("medical"), u>> : u \in MedicalInputs }
    \cup { <<PStr("legal"), u>> : u \in LegalInputs }
    \cup { <<PStr("education"), u>> : u \in {EmptyDict} }

InitDeductive ==
    /\ SharedInit
    /\ GEMINI_API_KEY = TRUE
    /\ OPENROUTER_API_KEY = FALSE
    /\ EnvironInit
    /\ NoQuery
    /\ current = 1
    /\ suspended = NoRun
    /\ pc = "calling"
    /\ args \in DeductiveCalls
    /\ returned = NotReturned
    /\ invoked = <<>>

\* Agent().apply_deductive(domain, user_input)
CallDeductive ==
    /\ pc = "calling"
    /\ pc' = "returned"
    /\ returned' = apply_deductive(args[1], args[2])
    /\ UNCHANGED << shared, GEMINI_API_KEY, OPENROUTER_API_KEY, query,
                    messages, step, reply, result, offScript, upstream,
                    calls, toolRuns, actions, sent, current, suspended,
                    args, invoked, environ, backendCalls >>

SpecDeductive == InitDeductive /\ [][CallDeductive]_vars

(***************************************************************************)
(* Agent.apply_inductive called alone, on one domain and one input.        *)
(***************************************************************************)

\* The past returns that are tried: none, one, those of the financial test,
\* and pairs whose deviation lies below, at, between and above the two
\* thresholds.
TestReturns ==
    PList(<<PFloat(1, 20), PFloat(3, 50), PFloat(7, 100), PFloat(1, 25),
            PFloat(1, 20)>>)

PastReturns ==
    { Absent, PStr("none"), PList(<<>>), PList(<<PFloat(1, 20)>>), TestReturns,
      PList(<<PFloat(1, 20), PFloat(3, 50)>>),
      PList(<<PFloat(0, 1), PFloat(1, 10)>>),
      PList(<<PFloat(0, 1), PFloat(1, 5)>>),
      PList(<<PFloat(1, 10), PFloat(3, 10)>>),
      PList(<<PFloat(0, 1), PFloat(1, 2)>>),
      PList(<<PFloat(1, 2), PFloat(1, 2)>>) }

SuppliedReturns ==
    { Absent, PNone, PFloat(-1, 100), PInt(0), PFloat(1, 20), PFloat(3, 50),
      PFloat(1, 2) }

SuppliedRisks == { Absent, PNone, PStr("low"), PStr("medium"), PStr("high") }

\* The financial input that holds past returns and nothing else.
OnlyPastReturns(past) ==
    DictOf(<<"data">>, <<DictOf(<<"pastReturns">>, <<past>>)>>)

InductiveFinancialInputs ==
    { DictOf(<<"data">>,
             <<DictOf(<<"expectedReturn", "riskLevel", "pastReturns">>,
                      <<e, r, p>>)>>) :
        e \in SuppliedReturns, r \in SuppliedRisks, p \in PastReturns }
    \cup {EmptyDict}

\* The symptoms of the reference cases, and one of none of them.
CaseSymptoms ==
    <<"fever", "cough", "headache", "rash", "shortness of breath",
      "chest pain">>

\* The names of CaseSymptoms at the indices in S, in the order of
\* CaseSymptoms.
CaseSymptomList(S) ==
    PList(SelectSeq([i \in 1..Len(CaseSymptoms) |->
                        IF i \in S THEN PStr(CaseSymptoms[i]) ELSE Absent],
                    LAMBDA v : v # Absent))

InductiveMedicalInputs ==
    { DictOf(<<"symptoms">>, <<CaseSymptomList(S)>>) :
        S \in SUBSET (1..Len(CaseSymptoms)) }
    \cup {EmptyDict}

InductiveCalls ==
    { <<PStr("financial"), u>> : u \in InductiveFinancialInputs }
    \cup { <<PStr("medical"), u>> : u \in InductiveMedicalInputs }
    \cup { <<PStr("legal"), u>> : u \in LegalInputs }
    \cup { <<PStr("education"), u>> : u \in {EmptyDict} }

InitInductive ==
    /\ SharedInit
    /\ GEMINI_API_KEY = TRUE
    /\ OPENROUTER_API_KEY = FALSE
    /\ EnvironInit
    /\ NoQuery
    /\ current = 1
    /\ suspended = NoRun
    /\ pc = "calling"
    /\ args \in InductiveCalls
    /\ returned = NotReturned
    /\ invoked = <<>>

\* Agent().apply_inductive(domain, user_input)
CallInductive ==
    /\ pc = "calling"
    /\ pc' = "returned"
    /\ returned' = apply_inductive(args[1], args[2])
    /\ UNCHANGED << shared, GEMINI_API_KEY, OPENROUTER_API_KEY, query,
                    messages, step, reply, result, offScript, upstream,
                    calls, toolRuns, actions, sent, current, suspended,
                    args, invoked, environ, backendCalls >>

SpecInductive == InitInductive /\ [][CallInductive]_vars

(***************************************************************************)
(* Agent.process_query called alone, on one domain and one input.          *)
(***************************************************************************)

\* The methods process_query itself calls, in order, ded being what
\* apply_deductive does on the input.
ProcessCallsAs(reasoning_type, ded) ==
    IF PyEq(reasoning_type, PStr("deductive")) THEN <<"apply_deductive">>
    ELSE IF PyEq(reasoning_type, PStr("inductive")) THEN <<"apply_inductive">>
    ELSE IF ded.raised \/ Truthy(ded.val) THEN <<"apply_deductive">>
    ELSE <<"apply_deductive", "apply_inductive">>

process_query_calls(domain, user_input) ==
    ProcessCallsAs(Get(user_input, "reasoningType", PStr("both")),
                   apply_deductive(domain, user_input))

\* The reasoning types that are tried: none, the three of the engine, and
\* one it does not know.
ReasoningTypes ==
    { Absent, PStr("both"), PStr("deductive"), PStr("inductive"),
      PStr("abductive") }

\* The input u with the reasoning type.
WithReasoning(u, reasoning_type) ==
    IF reasoning_type = Absent THEN u
    ELSE PDict(<<"reasoningType">> \o u.k, <<reasoning_type>> \o u.items)

\* The inputs of a domain: those tried on apply_inductive, and for the
\* medical domain those with test results.
ProcessInputs ==
    { <<PStr("financial"), u>> : u \in InductiveFinancialInputs }
    \cup { <<PStr("medical"), u>> :
             u \in InductiveMedicalInputs \cup MedicalInputs }
    \cup { <<PStr("legal"), u>> : u \in LegalInputs }
    \cup { <<PStr("education"), u>> :
             u \in {EmptyDict, OnlyPastReturns(TestReturns)} }

ProcessCalls ==
    { <<c[1], WithReasoning(c[2], t)>> :
        c \in ProcessInputs, t \in ReasoningTypes }

InitProcess ==
    /\ SharedInit
    /\ GEMINI_API_KEY = TRUE
    /\ OPENROUTER_API_KEY = FALSE
    /\ EnvironInit
    /\ NoQuery
    /\ current = 1
    /\ suspended = NoRun
    /\ pc = "calling"
    /\ args \in ProcessCalls
    /\ returned = NotReturned
    /\ invoked = <<>>

\* Agent().process_query(domain, user_input)
CallProcessQuery ==
    /\ pc = "calling"
    /\ pc' = "returned"
    /\ returned' = process_query(args[1], args[2])
    /\ invoked' = process_query_calls(args[1], args[2])
    /\ UNCHANGED << shared, GEMINI_API_KEY, OPENROUTER_API_KEY, query,
                    messages, step, reply, result, offScript, upstream,
                    calls, toolRuns, actions, sent, current, suspended,
                    args, environ, backendCalls >>

SpecProcess == InitProcess /\ [][CallProcessQuery]_vars

(***************************************************************************)
(* Properties of the loop.                                                 *)
(***************************************************************************)

\* The replies of the run so far, in order.
AssistantReplies ==
    LET a == SelectSeq(messages, LAMBDA m : m.role = "assistant")
    IN  [i \in 1..Len(a) |-> a[i].content]

\* The observations of the run so far, in order.
Observations ==
    LET o == SelectSeq(messages,
                       LAMBDA m : m.role = "system" /\ m.content # <<>>
                                  /\ m.content[1] = "Observation:")
    IN  [i \in 1..Len(o) |-> o[i].content]

HasMarker(text, marker) == \E i \in 1..Len(text) : text[i] = marker

Ended == pc \in {"DONE", "FAILED"}

\* C1: every run calls the completion backend at most 10 times and invokes
\* at most 10 tools; a run whose 10 replies each led to a tool step has
\* failed with the error "No final answer produced within step limit." and
\* has returned no answer.
C1_StepLimit ==
    /\ calls <= 10
    /\ toolRuns <= 10
    /\ actions = 10 =>
          /\ pc = "FAILED"
          /\ result = Raises(<<"No final answer produced within step limit.">>)

C1_Witness ==
    /\ pc = "FAILED" /\ result.kind = "raised"
    /\ actions = 10 /\ calls = 10 /\ toolRuns = 10

\* No reply of the run holds an "Answer:" or an "Action:" marker.
NoMarkers ==
    \A i \in 1..Len(AssistantReplies) :
        /\ ~HasMarker(AssistantReplies[i], "Answer:")
        /\ ~HasMarker(AssistantReplies[i], "Action:")

\* C2 as stated: a run whose replies hold neither marker ends with the
\* step-limit failure.
C2_Original ==
    (Ended /\ calls >= 1 /\ NoMarkers) => result = Raises(StepLimitError)

\* C2: a run whose replies hold neither marker has ended at its first reply,
\* which it returned trimmed, without a tool step; and a run that ended with
\* the step-limit failure has had 10 replies, each with a matching action
\* and none with a final answer.
C2_MarkerlessReplyReturned ==
    /\ (Ended /\ calls >= 1 /\ NoMarkers) =>
          /\ pc = "DONE" /\ calls = 1 /\ actions = 0 /\ toolRuns = 0
          /\ result = Returns(strip(AssistantReplies[1]))
    /\ result = Raises(StepLimitError) =>
          /\ Len(AssistantReplies) = 10
          /\ \A i \in 1..10 : /\ ActionSearch(AssistantReplies[i]).found
                               /\ AnswerMatch(AssistantReplies[i]) = <<>>

C2_Witness ==
    /\ pc = "DONE" /\ calls = 1 /\ NoMarkers /\ upstream = "content"
    /\ reply = <<" ", "The result is 56088.", "\n">>
    /\ result = Returns(<<"The result is 56088.">>)

\* C3: a reply that holds neither marker ends the run in DONE with the reply
\* trimmed as the returned value; that step invokes no tool and appends
\* nothing to the transcript, and no completion call of this run follows.
C3_NeitherMarker ==
    [][ /\ ( pc = "PARSING_REPLY" /\ ~HasMarker(reply, "Answer:")
                                   /\ ~HasMarker(reply, "Action:") ) =>
            /\ pc' = "DONE"
            /\ result' = Returns(strip(reply))
            /\ toolRuns' = toolRuns /\ actions' = actions
            /\ messages' = messages /\ calls' = calls
        /\ pc = "DONE" => calls' = 0 /\ step' = 0 ]_vars

C3_Witness ==
    /\ pc = "DONE" /\ calls >= 2 /\ toolRuns = calls - 1
    /\ ~HasMarker(reply, "Answer:") /\ ~HasMarker(reply, "Action:")
    /\ reply # strip(reply) /\ result = Returns(strip(reply))

\* An "Answer:" marker with text after it.
HasAnswerText(text) ==
    \E i \in 1..Len(text) :
        /\ text[i] = "Answer:"
        /\ \E j \in (i + 1)..Len(text) : text[j] \notin Whitespace

\* C4 as stated: a reply with an "Answer: <text>" marker anywhere ends the
\* run in DONE and no tool is executed for it.
C4_Original ==
    [][ (pc = "PARSING_REPLY" /\ HasAnswerText(reply)) =>
            (pc' = "DONE" /\ toolRuns' = toolRuns /\ messages' = messages)
      ]_vars

\* The text after the marker at index i of text, when it is a final answer:
\* after whitespace a text that is not blank and runs to the end of text on
\* one line (a last newline apart).
TextAfter(text, i) == lstrip(SubSeq(text, i + 1, Len(text)))

OneLine(rest) ==
    /\ strip(rest) # <<>>
    /\ \A j \in 1..(Len(rest) - 1) : rest[j] # "\n"

TrailingAnswers(text) ==
    {i \in 1..Len(text) : text[i] = "Answer:" /\ OneLine(TextAfter(text, i))}

\* C4: a reply in which an "Answer:" marker is followed by text that runs to
\* the end of the reply on one line ends the run in DONE, whether or not it
\* holds an "Action:" marker: the returned value is the text after the first
\* such marker, trimmed, and no tool is executed for that reply.
C4_TrailingAnswerWins ==
    [][ (pc = "PARSING_REPLY" /\ TrailingAnswers(reply) # {}) =>
            /\ pc' = "DONE"
            /\ result' = Returns(strip(TextAfter(reply,
                                                 Min(TrailingAnswers(reply)))))
            /\ toolRuns' = toolRuns /\ actions' = actions
            /\ messages' = messages
      ]_vars

C4_Witness ==
    /\ pc = "DONE" /\ TrailingAnswers(reply) # {}
    /\ ActionSearch(reply).found
    /\ result = Returns(<<"4">>) /\ toolRuns = 0

\* A reply that is  Action: Calculator[<expr>]  and nothing else.
WellFormedAction(r) ==
    /\ Len(r) >= 6
    /\ SubSeq(r, 1, 4) = <<"Action:", " ", "Calculator", "[">>
    /\ r[Len(r)] = "]"
    /\ \A j \in 5..(Len(r) - 1) : r[j] \in AllowedChars

ExprOf(r) == SubSeq(r, 5, Len(r) - 1)

\* The indices of the "Answer:" markers with which reply r ends: the text
\* after the marker is not blank and holds no newline and no other marker.
EndingAnswers(r) ==
    {i \in 1..Len(r) :
        /\ r[i] = "Answer:"
        /\ strip(SubSeq(r, i + 1, Len(r))) # <<>>
        /\ \A j \in (i + 1)..Len(r) : r[j] \notin {"\n", "Answer:"}}

AnswerOf(r) == strip(SubSeq(r, Min(EndingAnswers(r)) + 1, Len(r)))

\* The backend of the run was a scripted one: each reply but the last is a
\* well-formed Calculator action, and the last ends with an answer.
ScriptedRun ==
    /\ Len(AssistantReplies) >= 1
    /\ \A i \in 1..(Len(AssistantReplies) - 1) :
           WellFormedAction(AssistantReplies[i])
    /\ EndingAnswers(AssistantReplies[Len(AssistantReplies)]) # {}

\* C5: a run with a scripted backend whose first k replies are well-formed
\* Calculator actions and whose reply k + 1 ends with an answer returns that
\* answer trimmed after k + 1 completion calls and k tool invocations, and
\* its i-th observation is what the calculator gives for the expression of
\* the i-th reply.
C5_ScriptedRun ==
    (pc \in {"DONE", "FAILED"} /\ calls >= 1 /\ ScriptedRun) =>
        /\ pc = "DONE"
        /\ Len(AssistantReplies) <= 10
        /\ result = Returns(AnswerOf(AssistantReplies[Len(AssistantReplies)]))
        /\ calls = Len(AssistantReplies)
        /\ toolRuns = Len(AssistantReplies) - 1
        /\ Len(Observations) = Len(AssistantReplies) - 1
        /\ \A i \in 1..Len(Observations) :
               Observations[i] =
                   <<"Observation:", " ">>
                   \o calculator_run(ExprOf(AssistantReplies[i])).text

C5_Witness ==
    /\ pc = "DONE" /\ ScriptedRun /\ calls = 3 /\ toolRuns = 2
    /\ Observations = << <<"Observation:", " ", "5", "6", "0", "8", "8">>,
                         <<"Observation:", " ", "-", "2">> >>
    /\ result = Returns(<<"5", "6", "0", "8", "8">>)

\* The action of the reply that is being parsed.
TakesAction == pc = "PARSING_REPLY" /\ AnswerMatch(reply) = <<>>
               /\ ActionSearch(reply).found

ActionName == strip(ActionSearch(reply).group1)

ActionInput == strip(ActionSearch(reply).group2)

Observation(text) == ChatMessage("system", <<"Observation:", " ">> \o text)

\* C6: the tool named in an action is the Calculator when the name is its
\* registered name in any case, and then the Calculator runs on the input;
\* for any other name no tool runs, the observation  Tool "<name>" not found
\* is appended and the loop goes on to the next completion call.
C6_ToolResolution ==
    [][ TakesAction =>
          IF ActionName \in {<<"Calculator">>, <<"calculator">>, <<"CALCULATOR">>}
          THEN /\ toolRuns' = toolRuns + 1
               /\ messages' =
                    Append(messages,
                           Observation(calculator_run(ActionInput).text))
          ELSE /\ toolRuns' = toolRuns
               /\ messages' =
                    Append(messages,
                           Observation(<<"Tool \"">> \o ActionName
                                       \o <<"\" not found">>))
               /\ step < 10 => pc' = "AWAITING_MODEL" /\ result' = NoResult
      ]_vars

C6_Witness ==
    /\ pc = "AWAITING_MODEL" /\ calls >= 1 /\ toolRuns = calls - 1
    /\ messages[Len(messages)] =
           Observation(<<"Tool \"", "Search", "\" not found">>)

\* The tool of the action is found and fails: the expression is made of the
\* calculator's characters and its evaluation raises an exception.
ToolFails ==
    /\ TakesAction
    /\ FindTool(ActionName) # 0
    /\ \A i \in 1..Len(ActionInput) : ActionInput[i] \in AllowedChars
    /\ eval(ActionInput).st \in {"div0", "syntax"}

\* C7: when the tool of an action fails, the exception becomes the
\* observation  Error: <description>  in a system message appended to the
\* transcript, and the loop goes back to AWAITING_MODEL; the run ends then
\* only when that was the 10th iteration, with the step-limit failure.
C7_ToolFailureObserved ==
    [][ ToolFails =>
          /\ messages' =
                Append(messages,
                       Observation(<<"Error:", " ">>
                                   \o ExcText(eval(ActionInput).st)))
          /\ IF step < 10
             THEN pc' = "AWAITING_MODEL" /\ result' = NoResult
             ELSE pc' = "FAILED" /\ result' = Raises(StepLimitError)
      ]_vars

C7_Witness ==
    /\ pc = "AWAITING_MODEL" /\ calls >= 2 /\ result = NoResult
    /\ messages[Len(messages)] =
           Observation(<<"Error:", " ", "division by zero">>)

\* C8 as stated: at the first completion call the transcript is the protocol
\* message, then the reasoning message if the query is a structured one, then
\* the user message.
C8_ReasoningBeforeUser ==
    (pc = "AWAITING_MODEL" /\ calls = 0) =>
        /\ Len(messages) = IF Truthy(DomainOf(QueryOf(query))) THEN 3 ELSE 2
        /\ messages[1] = ChatMessage("system", system_prompt)
        /\ \A i \in 1..(Len(messages) - 1) : messages[i].role = "system"
        /\ messages[Len(messages)] = ChatMessage("user", <<query>>)

\* C9 as stated: when a completion call fails upstream the query ends as a
\* failed one, and the text of the failure is no reply: it is not appended to
\* the transcript and it is not returned.
C9_UpstreamFailureEndsQuery ==
    upstream \notin {"none", "content"} =>
        /\ pc = "FAILED" /\ result.kind = "raised"
        /\ Len(AssistantReplies) = calls - 1

\* The domain of query q is none of the rule engine's.
UnsupportedDomain(q) ==
    /\ Truthy(DomainOf(q))
    /\ DomainOf(q) \notin {PStr("financial"), PStr("medical"), PStr("legal")}

\* The answers of the model that say so.
SaysNotSupported(text) ==
    \E i \in 1..Len(text) : text[i] = "The domain is not supported."

\* C10 as stated: the answer that a run returns for a structured query with
\* an unsupported domain says that the domain is not supported.
C10_UnsupportedDomainAnswer ==
    (pc = "DONE" /\ UnsupportedDomain(QueryOf(query))) =>
        (result.kind = "returned" /\ SaysNotSupported(result.text))

\* The query is a JSON object with a "domain" key.
JsonObjectWithDomain(q) ==
    q.syntax = "json" /\ q.value.t = "dict" /\ HasKey(q.value, "domain")

\* The system messages of the transcript other than the protocol message
\* and the observations: the results of process_query.
PreliminaryMessages ==
    SelectSeq(SubSeq(messages, 2, Len(messages)),
              LAMBDA m : m.role = "system"
                         /\ (m.content = <<>> \/ m.content[1] # "Observation:"))

\* C11 as stated: when the first completion call is made, the transcript
\* holds one result of process_query if the query is a JSON object with a
\* "domain" key, whatever its other values, and none otherwise.
C11_StructuredQueryRecognised ==
    (pc = "AWAITING_MODEL" /\ calls = 0) =>
        Len(PreliminaryMessages) =
            IF JsonObjectWithDomain(QueryOf(query)) THEN 1 ELSE 0

\* C12 as stated: a run of run_agent ends with a returned answer or with
\* the step-limit failure.
C12_NoFaultEscapes ==
    pc \in {"DONE", "FAILED"} =>
        \/ result.kind = "returned"
        \/ result = Raises(<<"No final answer produced within step limit.">>)

\* The replies in transcript ms, in order.
RepliesIn(ms) ==
    LET a == SelectSeq(ms, LAMBDA m : m.role = "assistant")
    IN  [i \in 1..Len(a) |-> a[i].content]

\* Transcript ms after the step that follows reply r.
AfterReply(ms, r) ==
    IF AnswerMatch(r) = <<>> /\ ActionSearch(r).found
    THEN Append(ms, Observation(Observe(strip(ActionSearch(r).group1),
                                        strip(ActionSearch(r).group2)).obs))
    ELSE ms

\* The transcript of a query q that got the replies rs and nothing else.
RECURSIVE OwnTranscript(_, _)
OwnTranscript(q, rs) ==
    IF rs = <<>> THEN InitialMessages(q).val
    ELSE AfterReply(Append(OwnTranscript(q, SubSeq(rs, 1, Len(rs) - 1)),
                           ChatMessage("assistant", rs[Len(rs)])),
                    rs[Len(rs)])

\* The transcript of q when the last of the replies rs is yet to be parsed.
OwnTranscriptParsing(q, rs) ==
    Append(OwnTranscript(q, SubSeq(rs, 1, Len(rs) - 1)),
           ChatMessage("assistant", rs[Len(rs)]))

\* The local variables l are those of query id alone: the transcript holds
\* the messages of that query and its replies, and the iterations and the
\* completion calls counted are its own.
OwnRun(l, id) ==
    IF l.pc = "idle" THEN l = NoRun
    ELSE /\ l.query = ConcurrentQuery(id).text
         /\ l.calls = Len(RepliesIn(l.messages))
         /\ l.step = l.calls
         /\ l.messages =
               IF l.pc = "PARSING_REPLY"
               THEN OwnTranscriptParsing(ConcurrentQuery(id),
                                         RepliesIn(l.messages))
               ELSE OwnTranscript(ConcurrentQuery(id), RepliesIn(l.messages))

\* C13: of two queries whose steps interleave at the completion calls, each
\* has a transcript made of its own messages only and counts its own
\* iterations and completion calls only, and the tool registry and the case
\* tables are as the module built them whatever steps either has taken.
C13_QueriesIndependent ==
    /\ OwnRun(Locals, current)
    /\ OwnRun(suspended, 3 - current)
    /\ tools = Tools
    /\ medical_cases = MedicalCases
    /\ legal_cases = LegalCases

C13_Witness ==
    /\ current = 1 /\ pc = "AWAITING_MODEL" /\ calls = 3
    /\ suspended.pc = "AWAITING_MODEL" /\ suspended.calls = 2
    /\ Len(messages) = 8 /\ Len(suspended.messages) = 7
    /\ messages[2].content # suspended.messages[2].content

\* The outcomes of a query that say that a key is missing.
KeyMissingOutcomes ==
    { Returns(<<"No API key configured.">>),
      Returns(<<"Gemini API key not configured.">>),
      Returns(<<"OpenRouter API key not configured.">>) }

Whitelist ==
    {"0", "1", "2", "3", "4", "5", "6", "7", "8", "9",
     ".", "+", "-", "*", "/", "(", ")", " "}

OutsideWhitelist(e) == \E i \in 1..Len(e) : e[i] \notin Whitelist

StartsWithError(text) ==
    Len(text) >= 2 /\ text[1] = "Error:" /\ text[2] = " "

\* text is str() of what eval(e) gave.
ResultString(text, e) ==
    \/ eval(e).st = "ok" /\ text = NumToStr(eval(e).v)
    \/ eval(e).st = "float" /\ text = <<"str(float)">>

\* C15: calculator_run never raises; it returns "Invalid expression" exactly
\* when the expression has a character outside the whitelist, whatever the
\* expression would evaluate to; on any other expression it returns str() of
\* the result or a text that starts with "Error: ".
C15_CalculatorGuard ==
    pc = "returned" =>
        /\ ~returned.raised
        /\ (returned.text = <<"Invalid expression">>)
              <=> OutsideWhitelist(args[1])
        /\ ~OutsideWhitelist(args[1]) =>
              \/ StartsWithError(returned.text)
              \/ ResultString(returned.text, args[1])

C15_Witness ==
    /\ pc = "returned"
    /\ args = << <<"1", "/", "0", " ", "x">> >>
    /\ eval(args[1]).st = "syntax"
    /\ returned = Returned(<<"Invalid expression">>)

\* A rational number, or the undefined value of a division by zero.
Rat(n, d) == [def |-> TRUE, n |-> n, d |-> d]
Undefined == [def |-> FALSE, n |-> 0, d |-> 1]

RatReduced(n, d, g) == Rat((IF d < 0 THEN -n ELSE n) \div g, Abs(d) \div g)

RatNorm(n, d) == RatReduced(n, d, Gcd(Abs(n), Abs(d)))

\* x o y in exact arithmetic.
RatOp(o, x, y) ==
    IF ~x.def \/ ~y.def THEN Undefined
    ELSE CASE o = "+" -> RatNorm(x.n * y.d + y.n * x.d, x.d * y.d)
           [] o = "-" -> RatNorm(x.n * y.d - y.n * x.d, x.d * y.d)
           [] o = "*" -> RatNorm(x.n * y.n, x.d * y.d)
           [] o = "/" -> IF y.n = 0 THEN Undefined
                         ELSE RatNorm(x.n * y.d, x.d * y.n)

RatOf(c) == Rat(DigitVal(c), 1)

\* The shapes of expression that the reference evaluator reads.
IsSingle(e) ==
    Len(e) = 3 /\ e[1] \in DigitSet /\ e[2] \in Operators /\ e[3] \in DigitSet

IsFlat(e) ==
    /\ Len(e) = 5
    /\ e[1] \in DigitSet /\ e[3] \in DigitSet /\ e[5] \in DigitSet
    /\ e[2] \in Operators /\ e[4] \in Operators

IsLeft(e) ==
    /\ Len(e) = 7 /\ e[1] = "(" /\ e[5] = ")"
    /\ e[2] \in DigitSet /\ e[4] \in DigitSet /\ e[7] \in DigitSet
    /\ e[3] \in Operators /\ e[6] \in Operators

IsRight(e) ==
    /\ Len(e) = 7 /\ e[3] = "(" /\ e[7] = ")"
    /\ e[1] \in DigitSet /\ e[4] \in DigitSet /\ e[6] \in DigitSet
    /\ e[2] \in Operators /\ e[5] \in Operators

ValidExpression(e) == IsSingle(e) \/ IsFlat(e) \/ IsLeft(e) \/ IsRight(e)

\* In  a o b p c  the second operator is applied first.
SecondFirst(o, p) == p \in {"*", "/"} /\ o \in {"+", "-"}

\* The operation applied first in a valid expression of two operators:
\* operator and operands.
InnerOf(e) ==
    CASE IsFlat(e) /\ SecondFirst(e[2], e[4]) -> <<e[4], e[3], e[5]>>
      [] IsFlat(e) /\ ~SecondFirst(e[2], e[4]) -> <<e[2], e[1], e[3]>>
      [] IsLeft(e) -> <<e[3], e[2], e[4]>>
      [] IsRight(e) -> <<e[5], e[4], e[6]>>

InnerValue(e) == RatOp(InnerOf(e)[1], RatOf(InnerOf(e)[2]), RatOf(InnerOf(e)[3]))

\* The value of a valid expression, by the standard precedence.
Reference(e) ==
    CASE IsSingle(e) -> RatOp(e[2], RatOf(e[1]), RatOf(e[3]))
      [] IsFlat(e) /\ SecondFirst(e[2], e[4]) ->
            RatOp(e[2], RatOf(e[1]), InnerValue(e))
      [] IsFlat(e) /\ ~SecondFirst(e[2], e[4]) ->
            RatOp(e[4], InnerValue(e), RatOf(e[5]))
      [] IsLeft(e) -> RatOp(e[6], InnerValue(e), RatOf(e[7]))
      [] IsRight(e) -> RatOp(e[2], RatOf(e[1]), InnerValue(e))

Divides(e) == \E i \in 1..Len(e) : e[i] = "/"

\* The text is a decimal numeral: an optional sign, digits, and optionally
\* a point and digits.
Unsigned(text) == IF text # <<>> /\ text[1] = "-" THEN Tail(text) ELSE text

PointOf(text) == FirstOf(Unsigned(text), 1, {"."})

WholeOf(text) == SubSeq(Unsigned(text), 1, PointOf(text) - 1)

FractionOf(text) ==
    SubSeq(Unsigned(text), PointOf(text) + 1, Len(Unsigned(text)))

IsDecimal(text) ==
    /\ WholeOf(text) # <<>>
    /\ \A i \in 1..Len(WholeOf(text)) : WholeOf(text)[i] \in DigitSet
    /\ \A i \in 1..Len(FractionOf(text)) : FractionOf(text)[i] \in DigitSet
    /\ PointOf(text) <= Len(Unsigned(text)) => FractionOf(text) # <<>>

\* The decimal numeral text is the number x.
Denotes(text, x) ==
    /\ IsDecimal(text)
    /\ (IF text[1] = "-" THEN -1 ELSE 1)
         * (StrToNat(WholeOf(text)) * Pow10(Len(FractionOf(text)))
            + StrToNat(FractionOf(text))) * x.d
       = x.n * Pow10(Len(FractionOf(text)))

\* The text of a result is the number x: a float the model does not
\* determine can be x only if x is a dyadic rational.
ExactText(text, x) ==
    IF text = <<"str(float)">> THEN IsPow2(x.d) ELSE Denotes(text, x)

\* Every quotient taken in the valid expression e is a dyadic rational.
QuotientsDyadic(e) ==
    /\ IsPow2(Reference(e).d)
    /\ ~IsSingle(e) => IsPow2(InnerValue(e).d)

Invest == Ret(PStr("Decision: Invest (high return, low risk)"))
DoNotInvest ==
    Ret(PStr("Decision: Do Not Invest (insufficient return or high risk)"))
Hold == Ret(PStr("Decision: Hold (moderate return/risk)"))
Measles == Ret(PStr("Diagnosis: Measles (fever + rash)"))
Pneumonia == Ret(PStr("Diagnosis: Pneumonia (fever, cough, patchy x-ray)"))
HeartAttack ==
    Ret(PStr("Diagnosis: Possible Heart Attack (chest pain + breathing issues)"))
ContractInvalid == Ret(PStr("Legal Outcome: Contract invalid (no signature)"))
LikelyEnforceable == Ret(PStr("Legal Outcome: Contract likely enforceable"))
LikelyConviction == Ret(PStr("Legal Outcome: Likely conviction"))
LikelyAcquittal == Ret(PStr("Legal Outcome: Likely acquittal"))
NoConclusion == Ret(PNone)

\* apply_deductive has returned from a call for the domain.
Deduced(domain) ==
    pc = "returned" /\ Len(args) = 2 /\ args[1] = PStr(domain)

\* The field of the dict d, absent when the key is missing or holds None.
Field(d, key) ==
    IF HasKey(d, key) /\ Get(d, key, PNone).t # "none"
    THEN Get(d, key, PNone) ELSE Absent

IsText(x, text) == x.t = "str" /\ x.s = text

\* The number x is above 0.05; it is below 0.
AboveThreshold(x) == x.n * 20 > x.d
Negative(x) == x.n < 0

\* The financial rule table on an expected return and a risk level.
FinancialTable(er, rl) ==
    IF er = Absent \/ rl = Absent THEN NoConclusion
    ELSE IF AboveThreshold(er) /\ IsText(rl, "low") THEN Invest
    ELSE IF Negative(er) \/ IsText(rl, "high") THEN DoNotInvest
    ELSE Hold

\* C17: on a financial input whose data object holds the expected return and
\* the risk level, apply_deductive returns Invest if the return is above
\* 0.05 and the risk low, else Do Not Invest if the return is negative or the
\* risk high, else Hold; and it returns no conclusion exactly when one of the
\* two is absent (its key missing, or None).
C17_FinancialRules ==
    (Deduced("financial") /\ HasKey(args[2], "data")) =>
        /\ returned = FinancialTable(Field(args[2].items[1], "expectedReturn"),
                                     Field(args[2].items[1], "riskLevel"))
        /\ (returned = NoConclusion)
             <=> \/ Field(args[2].items[1], "expectedReturn") = Absent
                 \/ Field(args[2].items[1], "riskLevel") = Absent

C17_Witness ==
    /\ Deduced("financial")
    /\ args[2] = DictOf(<<"data">>,
                        <<DictOf(<<"expectedReturn", "riskLevel">>,
                                 <<PFloat(1, 2), PStr("high")>>)>>)
    /\ returned = DoNotInvest

\* C18: apply_deductive("financial", {expectedReturn: 0.06, riskLevel: "low"})
\* returns the Invest conclusion.
C18_FieldsOfTheInput ==
    ( /\ Deduced("financial")
      /\ args[2] = DictOf(<<"expectedReturn", "riskLevel">>,
                          <<PFloat(3, 50), PStr("low")>>) )
    => returned = Invest

\* The symptom is in the list of symptoms of the input u.
HasSymptom(u, symptom) ==
    /\ HasKey(u, "symptoms")
    /\ \E i \in 1..Len(Get(u, "symptoms", PNone).items) :
          IsText(Get(u, "symptoms", PNone).items[i], symptom)

PatchyXRay(u) ==
    /\ HasKey(u, "testResults")
    /\ IsText(Field(Get(u, "testResults", PNone), "chestXRay"), "patchy")

\* The medical rule table, in its order.
MedicalTable(u) ==
    IF HasSymptom(u, "fever") /\ HasSymptom(u, "rash") THEN Measles
    ELSE IF HasSymptom(u, "fever") /\ HasSymptom(u, "cough") /\ PatchyXRay(u)
    THEN Pneumonia
    ELSE IF HasSymptom(u, "chest pain")
            /\ HasSymptom(u, "shortness of breath")
    THEN HeartAttack
    ELSE NoConclusion

\* C19: on every list of symptoms and every test results, apply_deductive
\* returns Measles if fever and rash are present, else Pneumonia if fever and
\* cough are present and the chest X-ray is patchy, else possible Heart
\* Attack if chest pain and shortness of breath are present, else no
\* conclusion: an input that satisfies several rules gets the earliest.
C19_MedicalPrecedence ==
    Deduced("medical") => returned = MedicalTable(args[2])

C19_Witness ==
    /\ Deduced("medical")
    /\ HasSymptom(args[2], "fever") /\ HasSymptom(args[2], "rash")
    /\ HasSymptom(args[2], "cough") /\ PatchyXRay(args[2])
    /\ HasSymptom(args[2], "chest pain")
    /\ HasSymptom(args[2], "shortness of breath")
    /\ returned = Measles

\* x == False  and  x == True  as Python compares: 0 equals False and 1
\* equals True.
EqualsBool(x, b) ==
    x # Absent /\ x.t \in {"bool", "num"} /\ x.n * 1 = (IF b THEN 1 ELSE 0) * x.d

IsBool(x, b) == x = PBool(b)

\* The legal rule table on the fields of u, with signed compared by
\* signedIs(x, b).
LegalTable(u, signedIs(_, _)) ==
    IF IsText(Field(u, "caseType"), "contract")
    THEN IF signedIs(Field(u, "signed"), FALSE) THEN ContractInvalid
         ELSE IF signedIs(Field(u, "signed"), TRUE)
                 /\ ~EqualsBool(Field(u, "consideration"), FALSE)
         THEN LikelyEnforceable
         ELSE NoConclusion
    ELSE IF IsText(Field(u, "caseType"), "criminal")
    THEN IF IsText(Field(u, "evidence"), "strong") THEN LikelyConviction
         ELSE IF IsText(Field(u, "evidence"), "weak") THEN LikelyAcquittal
         ELSE NoConclusion
    ELSE NoConclusion

\* The statement as first made: signed == false gives contract invalid, and
\* signed == true with consideration != false gives likely enforceable.
C20_Original ==
    Deduced("legal") => returned = LegalTable(args[2], EqualsBool)

\* C20: for caseType contract, signed being the bool False gives contract
\* invalid, and signed being the bool True with a consideration that does
\* not equal False gives likely enforceable (a signed of 0 or 1 is neither
\* bool, and a consideration of 0 equals False); for caseType criminal,
\* evidence strong gives likely conviction and evidence weak likely
\* acquittal; everything else gives no conclusion.
C20_LegalRules ==
    Deduced("legal") => returned = LegalTable(args[2], IsBool)

C20_Witness ==
    /\ Deduced("legal")
    /\ args[2] = DictOf(<<"caseType", "signed", "consideration">>,
                        <<PStr("contract"), PBool(TRUE), PInt(0)>>)
    /\ returned = NoConclusion

(***************************************************************************)
(* Properties of apply_inductive.                                          *)
(***************************************************************************)

\* apply_inductive has returned from a call for the domain.
Induced(domain) ==
    pc = "returned" /\ Len(args) = 2 /\ args[1] = PStr(domain)

\* The data object of a financial input (no data object: the empty one).
DataOf(u) == Get(u, "data", EmptyDict)

\* The value is the structured estimate.
IsEstimate(out) ==
    /\ ~out.raised
    /\ out.val.t = "dict"
    /\ out.val.k = <<"estimatedReturn", "estimatedRisk", "note">>

\* C21: apply_inductive("financial", ...) on the past returns 0.05, 0.06,
\* 0.07, 0.04, 0.05 alone returns the structured estimate, with the mean
\* 0.054 as estimatedReturn and "low" as estimatedRisk.
C21_EstimateOfTestReturns ==
    ( Induced("financial") /\ args[2] = OnlyPastReturns(TestReturns) )
    => /\ IsEstimate(returned)
       /\ Get(returned.val, "estimatedReturn", PNone) = PFloat(27, 500)
       /\ Get(returned.val, "estimatedRisk", PNone) = PStr("low")

(***************************************************************************)
(* Properties of process_query.                                            *)
(***************************************************************************)

\* process_query has returned from its call.
Processed == pc = "returned" /\ Len(args) = 2

\* The reasoning type of the input u is "both", or u has none.
ModeBoth(u) ==
    ~HasKey(u, "reasoningType")
    \/ IsText(Get(u, "reasoningType", PNone), "both")

\* The result of process_query that holds the conclusion and its tag.
Tagged(conclusion, used) ==
    Ret(PDict(<<"result", "reasoningUsed">>, <<conclusion, PStr(used)>>))

\* What reasoning type "both" comes to, ded and ind being what
\* apply_deductive and apply_inductive do on the input.
DeductiveFirst(ded, ind) ==
    IF ded.val # PNone
    THEN /\ returned = Tagged(ded.val, "deductive")
         /\ invoked = <<"apply_deductive">>
    ELSE /\ returned = Tagged(ind.val, "inductive")
         /\ invoked = <<"apply_deductive", "apply_inductive">>

\* C22: with reasoningType "both" or none, process_query calls
\* apply_deductive first; if that gives a conclusion, the result is the
\* conclusion tagged "deductive" and apply_inductive is not called; if it
\* gives none, apply_inductive is called and the result is what it gives,
\* tagged "inductive".
C22_DeductiveFirst ==
    ( Processed /\ ModeBoth(args[2]) )
    => DeductiveFirst(apply_deductive(args[1], args[2]),
                      apply_inductive(args[1], args[2]))

C22_Witness ==
    /\ Processed
    /\ args = <<PStr("medical"),
                DictOf(<<"symptoms">>,
                       <<PList(<<PStr("fever"), PStr("rash")>>)>>)>>
    /\ returned = Tagged(PStr("Diagnosis: Measles (fever + rash)"), "deductive")
    /\ invoked = <<"apply_deductive">>
    /\ apply_inductive(args[1], args[2])
       = Ret(PStr("Possible Diagnosis: Measles (similar cases)"))

(***************************************************************************)
(* Properties of the transcript.                                           *)
(***************************************************************************)

\* The message is an observation.
IsObservation(m) ==
    /\ m.role = "system"
    /\ Len(m.content) >= 2
    /\ SubSeq(m.content, 1, 2) = <<"Observation:", " ">>

\* After the initial messages the transcript holds, in turn, the reply of a
\* completion call and the observation of the tool step that followed it.
Alternates ==
    /\ actions <= calls /\ calls <= actions + 1
    /\ Len(messages) >= calls + actions
    /\ \A k \in 1..(calls + actions) :
          LET m == messages[Len(messages) - calls - actions + k]
          IN  IF k % 2 = 1 THEN m.role = "assistant" ELSE IsObservation(m)

\* A completion call: it gets the whole transcript and appends its reply,
\* and no tool runs; the round trip before it is complete.
CompletionStep ==
    /\ sent' = messages
    /\ messages' = Append(messages, ChatMessage("assistant", reply'))
    /\ calls' = calls + 1
    /\ toolRuns' = toolRuns /\ actions' = actions
    /\ messages[Len(messages)].role # "assistant"
    /\ calls > 0 => /\ IsObservation(messages[Len(messages)])
                    /\ messages[Len(messages) - 1]
                       = ChatMessage("assistant", reply)

\* The step after a completion call: the transcript ends with the reply; if
\* a tool step is taken, the reply holds the action, one observation (that of
\* the action) is appended and the loop goes on to the next completion call
\* or is exhausted; otherwise the transcript stays as it is and no tool runs.
ParsingStep ==
    /\ messages[Len(messages)] = ChatMessage("assistant", reply)
    /\ calls' = calls
    /\ \/ /\ messages' = messages
          /\ toolRuns' = toolRuns /\ actions' = actions
          /\ pc' \in {"DONE", "FAILED"}
       \/ /\ ActionSearch(reply).found
          /\ messages'
             = Append(messages,
                      Observation(Observe(strip(ActionSearch(reply).group1),
                                          strip(ActionSearch(reply).group2)).obs))
          /\ actions' = actions + 1
          /\ toolRuns' \in {toolRuns, toolRuns + 1}
          /\ pc' \in {"AWAITING_MODEL", "FAILED"}

\* C23: the transcript only grows during a run and, after the initial
\* messages, alternates: a completion call is made with the whole transcript
\* and appends one assistant message, its reply; a tool step appends one
\* system message  Observation: <obs>  right after the assistant message that
\* asked for it; a tool runs only for the action of the last assistant
\* message, and the next completion call begins only after the observation
\* is in the transcript.
C23_RoundTrips ==
    /\ [](pc \in {"AWAITING_MODEL", "PARSING_REPLY", "DONE"} => Alternates)
    /\ [][ /\ pc = "AWAITING_MODEL" => CompletionStep
           /\ pc = "PARSING_REPLY" => ParsingStep ]_vars

C23_Witness ==
    /\ pc = "AWAITING_MODEL" /\ calls = 2 /\ actions = 2 /\ toolRuns = 1
    /\ Len(messages) = Len(sent) + 2
    /\ SubSeq(messages, 1, Len(sent)) = sent
    /\ messages[Len(messages) - 1] = ChatMessage("assistant", reply)
    /\ IsObservation(messages[Len(messages)])
    /\ IsObservation(sent[Len(sent)])

(***************************************************************************)
(* Properties of the action of a reply.                                    *)
(***************************************************************************)

\* The indices of the "Action:" markers of the text.
Markers(text) == {i \in 1..Len(text) : text[i] = "Action:"}

\* The marker at index i of the text has the form  Action: name[input]:
\* after it come a name without "[" (b is the "["), and an input without "]"
\* (e is the "]"), neither of them empty.
FormedAs(text, i, b, e) ==
    /\ i + 1 < b /\ b + 1 < e
    /\ text[b] = "[" /\ text[e] = "]"
    /\ \A j \in (i + 1)..(b - 1) : text[j] # "["
    /\ \A j \in (b + 1)..(e - 1) : text[j] # "]"

WellFormed(text, i) ==
    \E b \in 1..Len(text) : \E e \in 1..Len(text) : FormedAs(text, i, b, e)

\* The observation of the action of the well-formed marker at index i.
ObservationOf(text, i) ==
    LET b == CHOOSE b \in 1..Len(text) :
                 \E e \in 1..Len(text) : FormedAs(text, i, b, e)
        e == CHOOSE e \in 1..Len(text) : FormedAs(text, i, b, e)
    IN  Observe(strip(SubSeq(text, i + 1, b - 1)),
                strip(SubSeq(text, b + 1, e - 1)))

\* The step after a reply does nothing for an action.
NoToolStep ==
    /\ messages' = messages
    /\ toolRuns' = toolRuns
    /\ actions' = actions

\* The step after a reply acts on the marker at index i, and on no other:
\* one observation, and one tool invocation if the tool exists.
ActsOn(i) ==
    /\ WellFormed(reply, i)
    /\ messages' = Append(messages, Observation(ObservationOf(reply, i).obs))
    /\ actions' = actions + 1
    /\ toolRuns' = IF ObservationOf(reply, i).ran THEN toolRuns + 1
                   ELSE toolRuns

\* The reply that is parsed holds several markers.
SeveralMarkers == pc = "PARSING_REPLY" /\ Cardinality(Markers(reply)) >= 2

\* The statement as first made: of several markers the first one in the text
\* is acted on.
C24_Original ==
    [][ (SeveralMarkers /\ AnswerMatch(reply) = <<>>)
        => ActsOn(Min(Markers(reply))) ]_vars

\* C24: when a reply holds several "Action:" markers and no answer, the step
\* that follows acts on one of them, the first that has the form
\* Action: name[input]  (a marker before it that lacks the name, the input or
\* the brackets is passed over): it appends one observation and invokes at
\* most one tool; when no marker has the form, or the reply holds an answer,
\* there is no tool step.
C24_FirstMatchOnly ==
    [][ SeveralMarkers
        => IF AnswerMatch(reply) # <<>>
              \/ \A i \in Markers(reply) : ~WellFormed(reply, i)
           THEN NoToolStep
           ELSE ActsOn(Min({i \in Markers(reply) : WellFormed(reply, i)}))
      ]_vars

\* The reply was  Action:[7] Action: Calculator[1+1]:  the observation is
\* that of the second marker.
C24_Witness ==
    /\ pc = "AWAITING_MODEL" /\ calls = 1 /\ actions = 1 /\ toolRuns = 1
    /\ reply = <<"Action:", "[", "7", "]", " ",
                 "Action:", " ", "Calculator", "[", "1", "+", "1", "]">>
    /\ messages[Len(messages)] = Observation(<<"2">>)
    /\ messages[Len(messages) - 1] = ChatMessage("assistant", reply)

\* The population variance of the returns around their own mean.
OwnVariance(returns) ==
    QDivInt(SumSqFrom(returns, QDivInt(SumFrom(returns, 1), Len(returns)), 1),
            Len(returns))

\* The risk level of a standard deviation whose square is the variance:
\* above 0.10 high, below 0.05 low, else medium.
RiskLevelOf(variance) ==
    IF variance.n * 100 > variance.d THEN PStr("high")
    ELSE IF variance.n * 400 < variance.d THEN PStr("low")
    ELSE PStr("medium")

\* The data object d leaves the risk level to be derived from two or more
\* past returns.
DerivesRisk(d) ==
    /\ Field(d, "riskLevel") = Absent
    /\ Field(d, "pastReturns").t = "list"
    /\ Len(Field(d, "pastReturns").items) > 1

\* The expected return of the data object d: the one supplied, or the mean
\* of the past returns.
ReturnOf(d) ==
    IF Field(d, "expectedReturn") # Absent THEN Field(d, "expectedReturn")
    ELSE AsPNum(QDivInt(SumFrom(Field(d, "pastReturns").items, 1),
                        Len(Field(d, "pastReturns").items)))

\* C25: when apply_inductive derives the risk level from the past returns,
\* the level is that of their population standard deviation around their own
\* mean (above 0.10 high, below 0.05 low, else medium), whether or not an
\* expected return was supplied; the call returns the decision for the
\* expected return and that level.
C25_RiskAroundOwnMean ==
    ( Induced("financial") /\ DerivesRisk(DataOf(args[2])) )
    => returned
       = FinancialTable(
             ReturnOf(DataOf(args[2])),
             RiskLevelOf(OwnVariance(Field(DataOf(args[2]),
                                           "pastReturns").items)))

\* The number of symptoms of reference case i that the input u holds.
Overlap(i, u) ==
    Cardinality({j \in 1..Len(medical_cases[i].symptoms) :
                    HasSymptom(u, medical_cases[i].symptoms[j])})

\* The reference cases of the highest overlap with u.
Closest(u) ==
    {i \in 1..Len(medical_cases) :
        \A j \in 1..Len(medical_cases) : Overlap(j, u) <= Overlap(i, u)}

PossibleDiagnosis(d) ==
    Ret(PStr("Possible Diagnosis: " \o d \o " (similar cases)"))

DiagnosisUnclear == Ret(PStr("Diagnosis unclear (no close match)"))

\* C26: on a medical input apply_inductive returns  Possible Diagnosis: <d>
\* (similar cases)  for the diagnosis d of the reference case of the highest
\* overlap with the symptoms of the input, the first of them in the table
\* when several have it, if that overlap is above 0; it returns  Diagnosis
\* unclear (no close match)  when every case has overlap 0, and only then.
C26_ClosestCase ==
    Induced("medical")
    => /\ returned
          = IF Overlap(Min(Closest(args[2])), args[2]) > 0
            THEN PossibleDiagnosis(
                     medical_cases[Min(Closest(args[2]))].diagnosis)
            ELSE DiagnosisUnclear
       /\ returned = DiagnosisUnclear
          <=> \A i \in 1..Len(medical_cases) : Overlap(i, args[2]) = 0

\* Fever and cough: Flu and Common Cold both overlap in two symptoms, and
\* Flu comes first.
C26_Witness ==
    /\ Induced("medical")
    /\ args[2] = DictOf(<<"symptoms">>,
                        <<PList(<<PStr("fever"), PStr("cough")>>)>>)
    /\ Closest(args[2]) = {1, 2}
    /\ returned = PossibleDiagnosis("Flu")

\* The two values are equal as Python compares them: numbers and bools by
\* value, texts letter by letter; an absent value equals nothing.
SameValue(a, b) ==
    /\ a # Absent /\ b # Absent
    /\ IF a.t \in {"num", "bool"} /\ b.t \in {"num", "bool"}
       THEN a.n * b.d = b.n * a.d
       ELSE a = b

\* The reference record rec is similar to the input u.
Similar(rec, u) ==
    /\ SameValue(Field(rec, "caseType"), Field(u, "caseType"))
    /\ \/ SameValue(Field(rec, "signed"), Field(u, "signed"))
       \/ SameValue(Field(rec, "evidence"), Field(u, "evidence"))
       \/ Field(rec, "signed") = Absent /\ Field(rec, "evidence") = Absent

SimilarRecords(u) ==
    {i \in 1..Len(legal_cases) : Similar(legal_cases[i], u)}

LikelyOutcome(outcome) ==
    Ret(PStr("Likely Outcome: " \o outcome \o " (similar past case)"))

OutcomeUnclear == Ret(PStr("Outcome unclear (no similar cases)"))

\* C27: on a legal input apply_inductive returns  Likely Outcome: <outcome>
\* (similar past case)  for the outcome of the first record of the table
\* whose case type is that of the input and which has a signed field equal
\* to the input's, or an evidence field equal to the input's, or neither
\* field; it returns  Outcome unclear (no similar cases)  when no record is
\* such, and only then.  A record of another case type is never taken, and an
\* input without the field that its case type goes by gets a record only if
\* that record has neither field.
C27_FirstSimilarRecord ==
    Induced("legal")
    => /\ returned
          = IF SimilarRecords(args[2]) # {}
            THEN LikelyOutcome(
                     Field(legal_cases[Min(SimilarRecords(args[2]))],
                           "outcome").s)
            ELSE OutcomeUnclear
       /\ returned = OutcomeUnclear <=> SimilarRecords(args[2]) = {}
       /\ \A i \in 1..Len(legal_cases) :
             returned = LikelyOutcome(Field(legal_cases[i], "outcome").s)
             => /\ Field(legal_cases[i], "caseType")
                   = Field(args[2], "caseType")
                /\ HasKey(legal_cases[i], "signed")
                   => Field(args[2], "signed") # Absent
                /\ HasKey(legal_cases[i], "evidence")
                   => Field(args[2], "evidence") # Absent

\* The input of the legal test: a civil case gets the record without signed
\* and evidence.
C27_Witness ==
    /\ Induced("legal")
    /\ args[2] = DictOf(<<"caseType">>, <<PStr("civil")>>)
    /\ SimilarRecords(args[2]) = {5}
    /\ returned = LikelyOutcome("Case settled out of court")

\* The reasoning type of the input u is the text.
Mode(u, text) == IsText(Get(u, "reasoningType", PNone), text)

\* The result of process_query in a single mode: out is what the function
\* of the mode did on the input, sentence the text for no conclusion.
SingleResult(out, sentence) ==
    Ret(PDict(<<"result">>,
              <<IF out.val = PNone THEN PStr(sentence) ELSE out.val>>))

\* The result that process_query returned is neither None nor empty.
HasResult ==
    /\ ~returned.raised
    /\ returned.val.t = "dict"
    /\ returned.val.k = <<"result">>
    /\ returned.val.items[1] \notin {PNone, PStr(""), EmptyDict, PList(<<>>)}

\* C28: with reasoningType "deductive" process_query calls apply_deductive
\* and nothing else, and its result is what that returned, or  No deductive
\* conclusion possible with given info.  when it returned nothing; with
\* "inductive" it is so with apply_inductive and  No inductive conclusion
\* possible with given info.  In both modes the result is never None and
\* never empty, whatever the domain.
C28_SingleModes ==
    /\ ( Processed /\ Mode(args[2], "deductive") )
       => /\ invoked = <<"apply_deductive">>
          /\ returned
             = SingleResult(apply_deductive(args[1], args[2]),
                            "No deductive conclusion possible with given info.")
          /\ HasResult
    /\ ( Processed /\ Mode(args[2], "inductive") )
       => /\ invoked = <<"apply_inductive">>
          /\ returned
             = SingleResult(apply_inductive(args[1], args[2]),
                            "No inductive conclusion possible with given info.")
          /\ HasResult

\* A domain the engine does not know, in the inductive mode.
C28_Witness ==
    /\ Processed
    /\ args = <<PStr("education"),
                WithReasoning(OnlyPastReturns(TestReturns), PStr("inductive"))>>
    /\ invoked = <<"apply_inductive">>
    /\ apply_inductive(args[1], args[2]) = Ret(PNone)
    /\ returned
       = Ret(PDict(<<"result">>,
                   <<PStr("No inductive conclusion possible with given info.")>>))

\* The past returns of the data object d, none when they are not a list.
PastOf(d) ==
    IF Field(d, "pastReturns").t = "list" THEN Field(d, "pastReturns").items
    ELSE <<>>

\* After the derivation the expected return of d is known; its risk level
\* is known.
ReturnKnown(d) == Field(d, "expectedReturn") # Absent \/ Len(PastOf(d)) > 0
RiskKnown(d) == Field(d, "riskLevel") # Absent \/ Len(PastOf(d)) > 1

\* What apply_deductive returns for the two values.
DecisionFor(exp_return, risk_level) ==
    apply_deductive(PStr("financial"),
                    DictOf(<<"data">>,
                           <<DictOf(<<"expectedReturn", "riskLevel">>,
                                    <<exp_return, risk_level>>)>>))

\* C30: on a financial input apply_inductive returns the estimate
\* {estimatedReturn, estimatedRisk, note} when, after the derivation from
\* the past returns, the expected return or the risk level is still None,
\* and only then, and the estimate holds that None; when both are known it
\* returns what apply_deductive returns for the two (Invest, Do Not Invest or
\* Hold), and when both were supplied the past returns make no difference.
C30_EstimateOnlyWhenUnknown ==
    Induced("financial")
    => /\ IsEstimate(returned)
          <=> ~ReturnKnown(DataOf(args[2])) \/ ~RiskKnown(DataOf(args[2]))
       /\ IsEstimate(returned)
          => /\ Get(returned.val, "estimatedReturn", PNone) = PNone
                <=> ~ReturnKnown(DataOf(args[2]))
             /\ Get(returned.val, "estimatedRisk", PNone) = PNone
                <=> ~RiskKnown(DataOf(args[2]))
       /\ ~IsEstimate(returned)
          => /\ returned \in {Invest, DoNotInvest, Hold}
             /\ \E r \in {PStr("low"), PStr("medium"), PStr("high")} :
                   returned = DecisionFor(ReturnOf(DataOf(args[2])), r)
       /\ ( Field(DataOf(args[2]), "expectedReturn") # Absent
            /\ Field(DataOf(args[2]), "riskLevel") # Absent )
          => returned = DecisionFor(Field(DataOf(args[2]), "expectedReturn"),
                                    Field(DataOf(args[2]), "riskLevel"))

\* One past return and nothing else: the expected return is derived, the
\* risk level is not.
C30_Witness ==
    /\ Induced("financial")
    /\ args[2] = OnlyPastReturns(PList(<<PFloat(1, 20)>>))
    /\ returned = Ret(Estimate(PFloat(1, 20), PNone))

(***************************************************************************)
(* Properties of the choice of the backend.                                *)
(***************************************************************************)

\* The completion client of the keys the module took at its import.
SelectedBackend ==
    IF GEMINI_API_KEY THEN "call_gemini" ELSE "call_openrouter"

\* The completion client the environment of this moment would give.
BackendOfEnviron ==
    IF environ.GEMINI_API_KEY THEN "call_gemini" ELSE "call_openrouter"

====
